---- MODULE Spec2Model ----
(***************************************************************************)
(* Link tree manager (options page): the draft / snapshot / backup         *)
(* protocol of src/options.js and of the earlier options page kept in      *)
(* src/unnamed/part_000.                                                   *)
(*                                                                         *)
(* A JavaScript string is a sequence of character codes.  A value that     *)
(* crosses the storage or file boundary (JSON) is a tagged record:         *)
(*   [t |-> "undefined"], [t |-> "null"], [t |-> "string", v |-> codes],   *)
(*   [t |-> "array", v |-> sequence], [t |-> "object", v |-> record].      *)
(* Inside the page a folder is [id, title, children, links] and a link is  *)
(* [id, title, url]; every folder the page builds has type 'folder'.       *)
(***************************************************************************)
EXTENDS Integers, Sequences, FiniteSets, TLC

(* ----------------------------- bounds -------------------------------- *)
\* ids uid() may hand out in one session
MaxIds == 2
\* Save clicks in one session
MaxSaves == 2
\* Restore (undo) clicks in one session
MaxUndos == 1
\* bind-file clicks in one session
MaxBinds == 1
\* editing clicks, keystrokes and imports in one session
MaxEdits == 2
\* clicks of every kind in one session
MaxClicks == 4
\* writes (storage or file) that fail in one session
MaxFailures == 1
\* files that elImport reads at the same time
MaxReaders == 1
\* folders deleted with btnDel in one session
MaxDeletes == 1
MaxUnbinds == 1
MaxTimers == 1
\* ids that uid() hands out to the nodes of text files
MaxTxtIds == 16

(* ----------------------------- strings ------------------------------- *)
\* 'folder'
FolderTag == <<102, 111, 108, 100, 101, 114>>
\* 'New root'
NewRootTitle == <<78, 101, 119, 32, 114, 111, 111, 116>>
\* 'New folder'
NewFolderTitle == <<78, 101, 119, 32, 102, 111, 108, 100, 101, 114>>
\* what the user types into a folder's title input: 'A'
TypedTitles == {<<65>>}

\* String.prototype.toLowerCase on the letters A-Z
toLowerCase(s) == [i \in 1..Len(s) |-> IF s[i] \in 65..90 THEN s[i] + 32 ELSE s[i]]

RECURSIVE StrLess(_, _)
\* a.localeCompare(b) < 0 for lower-cased strings of letters and spaces
StrLess(a, b) ==
    IF b = <<>> THEN FALSE
    ELSE IF a = <<>> THEN TRUE
    ELSE IF a[1] # b[1] THEN a[1] < b[1]
    ELSE StrLess(Tail(a), Tail(b))

\* the k-th id uid() hands out
uid(k) == <<k>>

(* --------------------------- JSON values ----------------------------- *)
RUndef == [t |-> "undefined"]
RNull == [t |-> "null"]
RStr(s) == [t |-> "string", v |-> s]
RArr(a) == [t |-> "array", v |-> a]
RObj(o) == [t |-> "object", v |-> o]

\* o.k and o?.k: undefined when o is no object or has no such key
Get(o, k) == IF o.t = "object" /\ k \in DOMAIN o.v THEN o.v[k] ELSE RUndef

\* safeArray = v => Array.isArray(v) ? v : []
safeArray(v) == IF v.t = "array" THEN v.v ELSE <<>>

\* typeof x === 'string' ? x : ''
StrOrEmpty(x) == IF x.t = "string" THEN x.v ELSE <<>>

RECURSIVE FolderToRaw(_)
\* what JSON.stringify / chrome.storage keep of a folder of the page
FolderToRaw(f) ==
    RObj([id |-> RStr(f.id), type |-> RStr(FolderTag), title |-> RStr(f.title),
          children |-> RArr([i \in 1..Len(f.children) |-> FolderToRaw(f.children[i])]),
          links |-> RArr([i \in 1..Len(f.links) |->
                          RObj([id |-> RStr(f.links[i].id),
                                title |-> RStr(f.links[i].title),
                                url |-> RStr(f.links[i].url)])])])

\* a tree of the page as a stored / serialised value
TreeToRaw(tree) == RArr([i \in 1..Len(tree) |-> FolderToRaw(tree[i])])

(* --------------------------- normalization --------------------------- *)
RECURSIVE normalizeLinks(_, _)
\* node.links.map(l => ({id, title, url})) with the uid counter n threaded through
normalizeLinks(ls, n) ==
    IF ls = <<>> THEN [list |-> <<>>, n |-> n]
    ELSE LET l == Head(ls)
             hasId == Get(l, "id").t = "string"
             lk == [id |-> IF hasId THEN Get(l, "id").v ELSE uid(n),
                    title |-> StrOrEmpty(Get(l, "title")),
                    url |-> StrOrEmpty(Get(l, "url"))]
             rest == normalizeLinks(Tail(ls), IF hasId THEN n ELSE n + 1)
         IN [list |-> <<lk>> \o rest.list, n |-> rest.n]

RECURSIVE normalizeNode(_, _), normalizeList(_, _)
\* normalizeNode with a fresh id for every folder
normalizeNodeNewId(node, n) ==
    IF ~(node.t = "object" /\ Get(node, "type") = RStr(FolderTag))
    THEN [ok |-> FALSE, n |-> n]
    ELSE LET ch == normalizeList(safeArray(Get(node, "children")), n + 1)
             lk == normalizeLinks(safeArray(Get(node, "links")), ch.n)
         IN [ok |-> TRUE,
             node |-> [id |-> uid(n),
                       title |-> StrOrEmpty(Get(node, "title")),
                       children |-> ch.list,
                       links |-> lk.list],
             n |-> lk.n]

\* normalizeNode without the test of node.type
normalizeNodeAnyType(node, n) ==
    IF node.t # "object"
    THEN [ok |-> FALSE, n |-> n]
    ELSE LET hasId == Get(node, "id").t = "string"
             ch == normalizeList(safeArray(Get(node, "children")),
                                 IF hasId THEN n ELSE n + 1)
             lk == normalizeLinks(safeArray(Get(node, "links")), ch.n)
         IN [ok |-> TRUE,
             node |-> [id |-> IF hasId THEN Get(node, "id").v ELSE uid(n),
                       title |-> StrOrEmpty(Get(node, "title")),
                       children |-> ch.list,
                       links |-> lk.list],
             n |-> lk.n]

\* normalizeNode: [ok |-> FALSE, n] for null, else [ok |-> TRUE, node, n]
normalizeNode(node, n) ==
    IF ~(node.t = "object" /\ Get(node, "type") = RStr(FolderTag))
    THEN [ok |-> FALSE, n |-> n]
    ELSE LET hasId == Get(node, "id").t = "string"
             ch == normalizeList(safeArray(Get(node, "children")),
                                 IF hasId THEN n ELSE n + 1)
             lk == normalizeLinks(safeArray(Get(node, "links")), ch.n)
         IN [ok |-> TRUE,
             node |-> [id |-> IF hasId THEN Get(node, "id").v ELSE uid(n),
                       title |-> StrOrEmpty(Get(node, "title")),
                       children |-> ch.list,
                       links |-> lk.list],
             n |-> lk.n]

\* arr.map(normalizeNode).filter(Boolean)
normalizeList(arr, n) ==
    IF arr = <<>> THEN [list |-> <<>>, n |-> n]
    ELSE LET h == normalizeNode(Head(arr), n)
             r == normalizeList(Tail(arr), h.n)
         IN [list |-> IF h.ok THEN <<h.node>> \o r.list ELSE r.list, n |-> r.n]

\* normalizeTree(data) when uid() has handed out n - 1 ids: [list, n]
normalizeTree(data, n) == normalizeList(safeArray(data), n)

RECURSIVE cloneNode(_)
\* JSON.parse(JSON.stringify(node)) of a folder of the page
cloneNode(f) ==
    [id |-> f.id, title |-> f.title,
     children |-> [i \in 1..Len(f.children) |-> cloneNode(f.children[i])],
     links |-> [i \in 1..Len(f.links) |->
                [id |-> f.links[i].id, title |-> f.links[i].title, url |-> f.links[i].url]]]

\* clone(tree)
clone(tree) == [i \in 1..Len(tree) |-> cloneNode(tree[i])]

(* ---------------------------- tree helpers --------------------------- *)
\* arr.splice(i, 1) with i counted from 1
SpliceOut(arr, i) == SubSeq(arr, 1, i - 1) \o SubSeq(arr, i + 1, Len(arr))

\* list.splice(index, 1, x): x takes the place of the entry at index
SpliceOver(arr, index, x) ==
    LET k == IF index > Len(arr) THEN Len(arr)
             ELSE IF index >= 0 THEN index
             ELSE IF Len(arr) + index < 0 THEN 0 ELSE Len(arr) + index
    IN SubSeq(arr, 1, k) \o <<x>> \o SubSeq(arr, k + 2, Len(arr))

\* arr.splice(index, 0, x) with the JavaScript index counted from 0
SpliceIn(arr, index, x) ==
    LET k == IF index > Len(arr) THEN Len(arr)
             ELSE IF index >= 0 THEN index
             ELSE IF Len(arr) + index < 0 THEN 0 ELSE Len(arr) + index
    IN SubSeq(arr, 1, k) \o <<x>> \o SubSeq(arr, k + 1, Len(arr))

RECURSIVE NodeAt(_, _)
\* the folder at a path of child positions: loc.parentArray[loc.index]
NodeAt(list, path) ==
    IF Len(path) = 1 THEN list[path[1]]
    ELSE NodeAt(list[path[1]].children, Tail(path))

RECURSIVE ReplaceNode(_, _, _)
\* the tree after an in-place change of the folder at path
ReplaceNode(list, path, node) ==
    IF Len(path) = 1 THEN [list EXCEPT ![path[1]] = node]
    ELSE [list EXCEPT ![path[1]].children = ReplaceNode(@, Tail(path), node)]

RECURSIVE RemoveAt(_, _)
\* loc.parentArray.splice(loc.index, 1)
RemoveAt(list, path) ==
    IF Len(path) = 1 THEN SpliceOut(list, path[1])
    ELSE [list EXCEPT ![path[1]].children = RemoveAt(@, Tail(path))]

\* the array that holds the folder at path: loc.parentArray
ParentArrayOf(list, path) ==
    IF Len(path) = 1 THEN list
    ELSE NodeAt(list, SubSeq(path, 1, Len(path) - 1)).children

RECURSIVE findFrom(_, _, _)
\* the loop of findParentAndIndex from position i on; <<>> is null
findFrom(list, id, i) ==
    IF i > Len(list) THEN <<>>
    ELSE IF list[i].id = id THEN <<i>>
    ELSE LET res == findFrom(list[i].children, id, 1)
         IN IF res # <<>> THEN <<i>> \o res ELSE findFrom(list, id, i + 1)

\* findParentAndIndex(list, id): the path of the first match in depth-first
\* pre-order (its last entry is index, the rest leads to parentNode)
findParentAndIndex(list, id) == findFrom(list, id, 1)

RECURSIVE findParentNodeKept(_, _, _, _)
\* a search that hands its own parentNode on to the search of n.children
findParentNodeKept(list, id, i, parentNode) ==
    IF i > Len(list) THEN <<>>
    ELSE IF list[i].id = id THEN <<[found |-> TRUE, parentNode |-> parentNode]>>
    ELSE LET res == findParentNodeKept(list[i].children, id, 1, parentNode)
         IN IF res # <<>> THEN res ELSE findParentNodeKept(list, id, i + 1, parentNode)

RECURSIVE findParentNode(_, _, _, _)
\* the parentNode of the result of findParentAndIndex(list, id, parentNode) from
\* position i on: <<>> when the result is null, else a record whose parentNode
\* is <<>> for null or <<n>> for the folder n handed to the recursive call
findParentNode(list, id, i, parentNode) ==
    IF i > Len(list) THEN <<>>
    ELSE IF list[i].id = id THEN <<[found |-> TRUE, parentNode |-> parentNode]>>
    ELSE LET res == findParentNode(list[i].children, id, 1, <<list[i]>>)
         IN IF res # <<>> THEN res ELSE findParentNode(list, id, i + 1, parentNode)

\* n.links.findIndex(l => l?.id === linkId), counted from 1; 0 is -1
findIndex(links, linkId) ==
    IF \E i \in 1..Len(links) : links[i].id = linkId
    THEN CHOOSE i \in 1..Len(links) :
            links[i].id = linkId /\ \A j \in 1..(i - 1) : links[j].id # linkId
    ELSE 0

RECURSIVE findLinkFrom(_, _, _)
\* the loop of findLinkParent from position i on; index 0 is null
findLinkFrom(list, linkId, i) ==
    IF i > Len(list) THEN [path |-> <<>>, index |-> 0]
    ELSE LET idx == findIndex(list[i].links, linkId)
         IN IF idx # 0 THEN [path |-> <<i>>, index |-> idx]
            ELSE LET res == findLinkFrom(list[i].children, linkId, 1)
                 IN IF res.index # 0 THEN [path |-> <<i>> \o res.path, index |-> res.index]
                    ELSE findLinkFrom(list, linkId, i + 1)

\* findLinkParent(list, linkId): the owning folder's path and the link's index
findLinkParent(list, linkId) == findLinkFrom(list, linkId, 1)

RECURSIVE detachFrom(_, _, _)
\* the loop of detachNodeById from position i on: the folder taken out (<<>> is
\* null) and the list after the splice
detachFrom(list, id, i) ==
    IF i > Len(list) THEN [node |-> <<>>, list |-> list]
    ELSE IF list[i].id = id THEN [node |-> <<list[i]>>, list |-> SpliceOut(list, i)]
    ELSE LET childRes == detachFrom(list[i].children, id, 1)
         IN IF childRes.node # <<>>
            THEN [node |-> childRes.node,
                  list |-> [list EXCEPT ![i].children = childRes.list]]
            ELSE detachFrom(list, id, i + 1)

\* detachNodeById without the splice: the folder found stays where it is
detachNodeKept(list, id) == [node |-> detachFrom(list, id, 1).node, list |-> list]

\* detachNodeById(list, id)
detachNodeById(list, id) == detachFrom(list, id, 1)

RECURSIVE detachLinkFrom(_, _, _)
\* the loop of detachLinkById from position i on
detachLinkFrom(list, linkId, i) ==
    IF i > Len(list) THEN [link |-> <<>>, list |-> list]
    ELSE LET idx == findIndex(list[i].links, linkId)
         IN IF idx # 0
            THEN [link |-> <<list[i].links[idx]>>,
                  list |-> [list EXCEPT ![i].links = SpliceOut(@, idx)]]
            ELSE LET childRes == detachLinkFrom(list[i].children, linkId, 1)
                 IN IF childRes.link # <<>>
                    THEN [link |-> childRes.link,
                          list |-> [list EXCEPT ![i].children = childRes.list]]
                    ELSE detachLinkFrom(list, linkId, i + 1)

\* a detachLinkById that splices at index 0 of the links of the owner
detachLinkHead(list, linkId) ==
    LET found == findLinkParent(list, linkId)
        owner == NodeAt(list, found.path)
    IN IF found.index = 0 THEN [link |-> <<>>, list |-> list]
       ELSE [link |-> <<owner.links[found.index]>>,
             list |-> ReplaceNode(list, found.path, [owner EXCEPT !.links = Tail(@)])]

\* detachLinkById(list, linkId)
detachLinkById(list, linkId) == detachLinkFrom(list, linkId, 1)

\* null where an id is expected
NullId == <<-1>>
\* '__root__'
RootName == <<95, 95, 114, 111, 111, 116, 95, 95>>

\* insertNodeIntoParent(list, parentId, index, nodeToInsert): what it returns
\* (ok) and the list after the splice
insertNodeIntoParent(list, parentId, index, nodeToInsert) ==
    IF parentId = NullId \/ parentId = RootName
    THEN [ok |-> TRUE, list |-> SpliceIn(list, index, nodeToInsert)]
    ELSE LET loc == findParentAndIndex(list, parentId)
         IN IF loc = <<>> THEN [ok |-> FALSE, list |-> list]
            ELSE [ok |-> TRUE,
                  list |-> ReplaceNode(list, loc,
                              [NodeAt(list, loc) EXCEPT
                                  !.children = SpliceIn(@, index, nodeToInsert)])]

\* a swap that forgets tmp: the entry at i is lost
swapInArrayLost(arr, i, j) ==
    IF i < 1 \/ j < 1 \/ i > Len(arr) \/ j > Len(arr) THEN arr
    ELSE [arr EXCEPT ![i] = arr[j]]

\* swapInArray(arr, i, j) with i, j counted from 1
swapInArray(arr, i, j) ==
    IF i < 1 \/ j < 1 \/ i > Len(arr) \/ j > Len(arr) THEN arr
    ELSE [arr EXCEPT ![i] = arr[j], ![j] = arr[i]]

\* removeEmptyFolders without the call for n.children
removeEmptyFoldersFlat(list) ==
    SelectSeq(list, LAMBDA n : ~(Len(n.children) = 0 /\ Len(n.links) = 0))

RECURSIVE removeEmptyFolders(_)
\* removeEmptyFolders(list)
removeEmptyFolders(list) ==
    IF list = <<>> THEN <<>>
    ELSE LET n == [Head(list) EXCEPT !.children = removeEmptyFolders(@)]
             rest == removeEmptyFolders(Tail(list))
         IN IF Len(n.children) = 0 /\ Len(n.links) = 0 THEN rest ELSE <<n>> \o rest

RECURSIVE InsertByTitleCased(_, _)
\* a step of a sort that compares the titles as they are, upper case first
InsertByTitleCased(sorted, x) ==
    IF sorted = <<>> THEN <<x>>
    ELSE IF StrLess(x.title, Head(sorted).title)
         THEN <<x>> \o sorted
         ELSE <<Head(sorted)>> \o InsertByTitleCased(Tail(sorted), x)

RECURSIVE InsertByTitle(_, _)
\* one step of a stable sort: x goes before the first entry whose key is greater
InsertByTitle(sorted, x) ==
    IF sorted = <<>> THEN <<x>>
    ELSE IF StrLess(toLowerCase(x.title), toLowerCase(Head(sorted).title))
         THEN <<x>> \o sorted
         ELSE <<Head(sorted)>> \o InsertByTitle(Tail(sorted), x)

RECURSIVE SortByTitle(_)
\* arr.sort((a, b) => a.title.toLowerCase().localeCompare(b.title.toLowerCase()))
SortByTitle(arr) ==
    IF arr = <<>> THEN <<>>
    ELSE InsertByTitle(SortByTitle(SubSeq(arr, 1, Len(arr) - 1)), arr[Len(arr)])

RECURSIVE sortTreeInPlace(_)
\* sortTreeInPlace(list)
sortTreeInPlace(list) ==
    LET sorted == SortByTitle(list)
    IN [i \in 1..Len(sorted) |->
          [sorted[i] EXCEPT !.children = sortTreeInPlace(@), !.links = SortByTitle(@)]]

\* String.prototype.includes: needle is a substring of hay
Includes(hay, needle) ==
    \E i \in 0..(Len(hay) - Len(needle)) : SubSeq(hay, i + 1, i + Len(needle)) = needle

RECURSIVE trim(_)
\* String.prototype.trim on strings of letters and spaces
trim(s) ==
    IF s = <<>> THEN <<>>
    ELSE IF Head(s) = 32 THEN trim(Tail(s))
    ELSE IF s[Len(s)] = 32 THEN trim(SubSeq(s, 1, Len(s) - 1))
    ELSE s

\* the test of the links filter in filterNode: the needle is in the string
\* made of the title, a space and the url, lower-cased
LinkIncludes(l, needle) == Includes(toLowerCase(l.title \o <<32>> \o l.url), needle)

RECURSIVE filterListAll(_, _)
\* a filter that returns every folder, with its links that pass the test
filterListAll(list, needle) ==
    [i \in 1..Len(list) |->
        [id |-> list[i].id, title |-> list[i].title,
         children |-> filterListAll(list[i].children, needle),
         links |-> SelectSeq(list[i].links, LAMBDA l : LinkIncludes(l, needle))]]

RECURSIVE filterList(_, _)
\* list.forEach(n => { const f = filterNode(n); if (f) out.push(f); })
filterList(list, needle) ==
    IF list = <<>> THEN <<>>
    ELSE LET node == Head(list)
             titleMatch == Includes(toLowerCase(node.title), needle)
             links == SelectSeq(node.links, LAMBDA l : LinkIncludes(l, needle))
             children == filterList(node.children, needle)
             rest == filterList(Tail(list), needle)
         IN IF titleMatch \/ Len(links) > 0 \/ Len(children) > 0
            THEN <<[id |-> node.id, title |-> node.title, children |-> children,
                    links |-> links]>> \o rest
            ELSE rest

\* filterTree(list, q)
filterTree(list, q) == IF q = <<>> THEN clone(list) ELSE filterList(list, toLowerCase(q))

(* ----------------------------- text files ----------------------------- *)
\* '=== LINK TREE ==='
TxtHeader == <<61, 61, 61, 32, 76, 73, 78, 75, 32, 84, 82, 69, 69, 32, 61, 61, 61>>
\* '===' and 'http'
TxtRule == <<61, 61, 61>>
TxtHttp == <<104, 116, 116, 112>>
\* the code units of the folder sign U+1F4C1 and of the link sign U+1F517
FolderSign == <<55357, 56513>>
LinkSign == <<55357, 56599>>
\* the line feed
LF == 10

\* ' '.repeat(k)
Spaces(k) == [i \in 1..k |-> 32]

RECURSIVE Join(_)
\* lines.join('\n')
Join(lines) ==
    IF lines = <<>> THEN <<>>
    ELSE IF Len(lines) = 1 THEN lines[1]
    ELSE lines[1] \o <<LF>> \o Join(Tail(lines))

RECURSIVE Split(_)
\* text.split('\n')
Split(text) ==
    LET feeds == {i \in 1..Len(text) : text[i] = LF}
        first == CHOOSE i \in feeds : \A j \in feeds : i <= j
    IN IF feeds = {} THEN <<text>>
       ELSE <<SubSeq(text, 1, first - 1)>> \o Split(SubSeq(text, first + 1, Len(text)))

RECURSIVE walkFoldersFirst(_, _)
\* a walk that writes the child folders of a folder before its links
walkFoldersFirst(nodes, depth) ==
    IF nodes = <<>> THEN <<>>
    ELSE LET node == Head(nodes)
             indent == Spaces(2 * depth)
             RECURSIVE forEachLink(_)
             forEachLink(ls) ==
                 IF ls = <<>> THEN <<>>
                 ELSE <<indent \o Spaces(2) \o LinkSign \o <<32>> \o Head(ls).title,
                        indent \o Spaces(5) \o Head(ls).url>> \o forEachLink(Tail(ls))
         IN <<indent \o FolderSign \o <<32>> \o node.title>>
               \o walkFoldersFirst(node.children, depth + 1)
               \o forEachLink(node.links)
               \o (IF depth = 0 THEN <<<<>>>> ELSE <<>>)
               \o walkFoldersFirst(Tail(nodes), depth)

RECURSIVE walk(_, _)
\* walk(nodes, depth) of exportTreeToTxt: the lines it pushes
walk(nodes, depth) ==
    IF nodes = <<>> THEN <<>>
    ELSE LET node == Head(nodes)
             indent == Spaces(2 * depth)
             linkLines(link) == <<indent \o Spaces(2) \o LinkSign \o <<32>> \o link.title,
                                 indent \o Spaces(5) \o link.url>>
             RECURSIVE forEachLink(_)
             forEachLink(ls) ==
                 IF ls = <<>> THEN <<>> ELSE linkLines(Head(ls)) \o forEachLink(Tail(ls))
         IN <<indent \o FolderSign \o <<32>> \o node.title>>
               \o forEachLink(node.links)
               \o walk(node.children, depth + 1)
               \o (IF depth = 0 THEN <<<<>>>> ELSE <<>>)
               \o walk(Tail(nodes), depth)

\* exportTreeToTxt(tree): the text of the file
exportTreeToTxt(tree) == Join(<<TxtHeader, <<>>>> \o walk(tree, 0))

\* String.prototype.startsWith
StartsWith(s, prefix) ==
    Len(s) >= Len(prefix) /\ SubSeq(s, 1, Len(prefix)) = prefix

RECURSIVE Replace(_, _)
\* s.replace(sign, ''): the first occurrence of sign goes
Replace(s, sign) ==
    IF Len(s) < Len(sign) THEN s
    ELSE IF StartsWith(s, sign) THEN SubSeq(s, Len(sign) + 1, Len(s))
    ELSE <<Head(s)>> \o Replace(Tail(s), sign)

RECURSIVE LeadingSpaces(_)
\* line.match(/^ */)[0].length
LeadingSpaces(line) ==
    IF line # <<>> /\ Head(line) = 32 THEN 1 + LeadingSpaces(Tail(line)) ELSE 0

\* the depth of the root entry of the stack, in half steps like every depth here
\* (depth is the number of leading spaces / 2 in the code, which may be n + 0.5)
SentinelDepth == -2

\* the state of parseTxtToTree before the first line: root, the stack of
\* [depth, path of the folder in root], lastLink as <<>> or <<[path, index]>>,
\* the uid counter, and whether a TypeError was thrown
ParseStart(n) ==
    [root |-> <<>>, stack |-> <<[depth |-> SentinelDepth, path |-> <<>>]>>,
     lastLink |-> <<>>, n |-> n, threw |-> FALSE]

\* an if in the place of the while: at most one entry is popped
PopOnce(stack, depth) ==
    IF Len(stack) > 0 /\ stack[Len(stack)].depth >= depth
    THEN SubSeq(stack, 1, Len(stack) - 1)
    ELSE stack

RECURSIVE PopWhileParent(_, _)
\* a loop that pops the entries one level above the new folder as well
PopWhileParent(stack, depth) ==
    IF Len(stack) > 0 /\ stack[Len(stack)].depth >= depth - 2
    THEN PopWhileParent(SubSeq(stack, 1, Len(stack) - 1), depth)
    ELSE stack

RECURSIVE PopWhile(_, _)
\* while (stack.length && stack[stack.length - 1].depth >= depth) stack.pop()
PopWhile(stack, depth) ==
    IF Len(stack) > 0 /\ stack[Len(stack)].depth >= depth
    THEN PopWhile(SubSeq(stack, 1, Len(stack) - 1), depth)
    ELSE stack

\* a folder line that leaves the pending link as it is
PendingKept(lastLink) == lastLink

\* lastLink = null at the end of the folder branch
PendingCleared(lastLink) == <<>>

\* the body of lines.forEach in parseTxtToTree for one line
ParseLine(st, line) ==
    LET depth == LeadingSpaces(line)
        content == trim(line)
    IN IF st.threw \/ content = <<>> \/ StartsWith(line, TxtRule) THEN st
       ELSE IF StartsWith(content, FolderSign)
       THEN LET folder == [id |-> uid(st.n), title |-> trim(Replace(content, FolderSign)),
                           children |-> <<>>, links |-> <<>>]
                stack == PopWhile(st.stack, depth)
                top == stack[Len(stack)]
                parent == NodeAt(st.root, top.path)
            IN IF stack = <<>> THEN [st EXCEPT !.threw = TRUE, !.stack = stack]
               ELSE IF top.path = <<>>
               THEN [root |-> Append(st.root, folder),
                     stack |-> Append(stack, [depth |-> depth, path |-> <<Len(st.root) + 1>>]),
                     lastLink |-> PendingCleared(st.lastLink), n |-> st.n + 1, threw |-> FALSE]
               ELSE [root |-> ReplaceNode(st.root, top.path,
                                 [parent EXCEPT !.children = Append(@, folder)]),
                     stack |-> Append(stack, [depth |-> depth,
                                              path |-> top.path \o <<Len(parent.children) + 1>>]),
                     lastLink |-> PendingCleared(st.lastLink), n |-> st.n + 1, threw |-> FALSE]
       ELSE IF StartsWith(content, LinkSign)
       THEN LET link == [id |-> uid(st.n), title |-> trim(Replace(content, LinkSign)),
                         url |-> <<>>]
                top == st.stack[Len(st.stack)]
                parentFolder == NodeAt(st.root, top.path)
            IN IF st.stack = <<>> THEN [st EXCEPT !.threw = TRUE]
               ELSE IF top.path = <<>> THEN [st EXCEPT !.n = @ + 1]
               ELSE [st EXCEPT
                        !.root = ReplaceNode(st.root, top.path,
                                    [parentFolder EXCEPT !.links = Append(@, link)]),
                        !.lastLink = <<[path |-> top.path,
                                        index |-> Len(parentFolder.links) + 1]>>,
                        !.n = @ + 1]
       ELSE IF StartsWith(content, TxtHttp) /\ st.lastLink # <<>>
       THEN LET at == st.lastLink[1]
                owner == NodeAt(st.root, at.path)
            IN [st EXCEPT !.root = ReplaceNode(st.root, at.path,
                                      [owner EXCEPT !.links[at.index].url = trim(content)])]
       ELSE st

RECURSIVE ParseLines(_, _)
\* lines.forEach(...) from the state st on
ParseLines(st, lines) ==
    IF lines = <<>> THEN st ELSE ParseLines(ParseLine(st, Head(lines)), Tail(lines))

\* parseTxtToTree(text) when uid() has handed out n - 1 ids: the last state
parseTxtToTree(text, n) == ParseLines(ParseStart(n), Split(text))

RECURSIVE FolderIds(_)
\* the ids of the folders of a tree, those of nested folders included
FolderIds(list) ==
    IF list = <<>> THEN {}
    ELSE {Head(list).id} \cup FolderIds(Head(list).children) \cup FolderIds(Tail(list))

RECURSIVE LinkIds(_)
\* the ids of the links of a tree
LinkIds(list) ==
    IF list = <<>> THEN {}
    ELSE {Head(list).links[i].id : i \in 1..Len(Head(list).links)}
         \cup LinkIds(Head(list).children) \cup LinkIds(Tail(list))

\* the ids of the folders and links of a tree
NodeIds(list) == FolderIds(list) \cup LinkIds(list)

(* ------------------------------- state ------------------------------- *)
VARIABLES
    currentTree,        \* the working draft
    savedTreeSnapshot,  \* the snapshot of the last load or save
    unsaved,            \* the dirty flag
    movingNode,         \* the cut folder: <<>> is null, else <<folder>>
    movingLink,         \* the cut link: <<>> is null, else <<link>>
    nextId,             \* uid() has handed out nextId - 1 ids
    storage,            \* chrome.storage.local: linkTree, linkTree_backup, treeSource
    boundFileHandle,    \* TRUE when the page holds a file handle
    fileText,           \* the JSON text of the bound file, parsed
    load,               \* loadInitial: [pc, source, stored]
    saves,              \* the Save clicks in flight: records [id, pc, tree, ...]
    undo,               \* the restore in flight: <<>> or <<[pc, res, prev]>>
    bind,               \* the bind-file click in flight: <<>> or <<[pc, ...]>>
    reader,             \* the FileReaders of elImport in flight: the files' JSON, parsed
    currentQuery,       \* the search the tree is rendered with: '' is no search
    download,           \* the text of the file the export button made last
    dialog,             \* the alert or confirm the last step showed, with the answer
    count,              \* clicks and failed writes so far: [edit, save, undo, bind, fail, del, unbind]
    timers,             \* the debounce timers of link inputs that have not fired:
                        \* records [id, field, value, live]
    removed,            \* history: the ids that btnDel of a folder took out of the
                        \* draft and that no cut took into the move buffer since
    chain               \* history: the primary slot's contents over the saves that
                        \* ran one after another with every write done; <<>> once a
                        \* save overlapped another, a write failed or a bind wrote

vars == <<currentTree, savedTreeSnapshot, unsaved, movingNode, movingLink, nextId,
          storage, boundFileHandle, fileText, load, saves, undo, bind, reader,
          currentQuery, download, dialog, count, removed, chain, timers>>

session == <<currentTree, savedTreeSnapshot, unsaved>>
buffer == <<movingNode, movingLink>>
store == <<storage, boundFileHandle, fileText>>
backend == <<store, chain>>
tasks == <<load, saves, undo, bind, reader, currentQuery, download>>

\* 'local', 'file'
SourceLocal == RStr(<<108, 111, 99, 97, 108>>)
SourceFile == RStr(<<102, 105, 108, 101>>)
\* text that JSON.parse rejects
SyntaxError == [t |-> "syntaxerror"]

\* an id and a tree kept from an earlier session
OldId == <<0>>
OldTree ==
    <<[id |-> OldId, title |-> <<98>>, children |-> <<>>,
       links |-> <<[id |-> <<0, 1>>, title |-> <<98>>, url |-> <<>>],
                   [id |-> <<0, 2>>, title |-> <<97>>, url |-> <<>>]>>],
      [id |-> <<0, 3>>, title |-> <<97>>, children |-> <<>>, links |-> <<>>]>>
\* an older tree an earlier session left in the backup slot
OldBackup == <<[id |-> OldId, title |-> <<65>>, children |-> <<>>, links |-> <<>>]>>

\* what chrome.storage.local may hold when the page opens: nothing (first
\* use), the tree and the backup of earlier saves, or those of a session that
\* had bound a file (the handle does not outlive the page)
StoredBefore ==
    {[linkTree |-> RUndef, linkTree_backup |-> RUndef, treeSource |-> RUndef],
     [linkTree |-> TreeToRaw(OldTree), linkTree_backup |-> TreeToRaw(OldBackup),
      treeSource |-> RUndef],
     [linkTree |-> TreeToRaw(OldTree), linkTree_backup |-> RUndef,
      treeSource |-> SourceFile]}

Init ==
    /\ currentTree = <<>>
    /\ savedTreeSnapshot = <<>>
    /\ unsaved = FALSE
    /\ movingNode = <<>>
    /\ movingLink = <<>>
    /\ nextId = 1
    /\ storage \in StoredBefore
    /\ boundFileHandle = FALSE
    /\ fileText = RUndef
    /\ load = [pc |-> "wait", source |-> RUndef, stored |-> RUndef]
    /\ saves = {}
    /\ undo = <<>>
    /\ bind = <<>>
    /\ reader = {}
    /\ currentQuery = <<>>
    /\ download = <<>>
    /\ dialog = "none"
    /\ count = [edit |-> 0, save |-> 0, undo |-> 0, bind |-> 0, fail |-> 0, del |-> 0, unbind |-> 0]
    /\ removed = {}
    /\ timers = {}
    /\ chain = <<storage.linkTree>>

(* ------------------------------ editing ------------------------------ *)
\* the clicks so far
Clicks == count.edit + count.save + count.undo + count.bind + count.del + count.unbind

\* the pending timers once the draft is tree: the closure of a timer holds the
\* link object of the row it was made for, which is an object of the draft as
\* long as the handlers since have kept it in the draft (a cut or a deletion
\* takes it out; what Paste puts in is a clone)
Held(tree) == {[t EXCEPT !.live = @ /\ t.id \in LinkIds(tree)] : t \in timers}

\* the pending timers once the draft is an array of new objects (a clone, a
\* parsed file, a loaded tree): no closure holds an object of the draft
Stale == {[t EXCEPT !.live = FALSE] : t \in timers}

\* a handler that changed the draft in place and called setUnsaved(true)
EditedDraft(tree) ==
    /\ count.edit < MaxEdits /\ Clicks < MaxClicks
    /\ count' = [count EXCEPT !.edit = @ + 1]
    /\ currentTree' = tree
    /\ unsaved' = TRUE
    /\ dialog' = "none"
    /\ timers' = Held(tree)
    /\ UNCHANGED <<savedTreeSnapshot, backend, tasks>>

\* such a handler that is neither a cut nor the deletion of a folder
Edited(tree) == EditedDraft(tree) /\ UNCHANGED removed

NewFolder(title) == [id |-> uid(nextId), title |-> title, children |-> <<>>, links |-> <<>>]

\* elAddRoot click
AddRoot ==
    /\ nextId <= MaxIds
    /\ Edited(Append(currentTree, NewFolder(NewRootTitle)))
    /\ nextId' = nextId + 1
    /\ UNCHANGED buffer

\* btnAddF click on the row of folder id
AddChild(id) ==
    LET loc == findParentAndIndex(currentTree, id)
        target == NodeAt(currentTree, loc)
    IN /\ nextId <= MaxIds
       /\ loc # <<>>
       /\ Edited(ReplaceNode(currentTree, loc,
                    [target EXCEPT !.children = Append(@, NewFolder(NewFolderTitle))]))
       /\ nextId' = nextId + 1
       /\ UNCHANGED buffer

\* btnAddL click on the row of folder id
AddLink(id) ==
    LET loc == findParentAndIndex(currentTree, id)
        target == NodeAt(currentTree, loc)
    IN /\ nextId <= MaxIds
       /\ loc # <<>>
       /\ Edited(ReplaceNode(currentTree, loc,
                    [target EXCEPT !.links =
                        Append(@, [id |-> uid(nextId), title |-> <<>>, url |-> <<>>])]))
       /\ nextId' = nextId + 1
       /\ UNCHANGED buffer

\* input event of the title field of folder id
TitleInput(id, value) ==
    LET loc == findParentAndIndex(currentTree, id)
    IN /\ loc # <<>>
       /\ Edited(ReplaceNode(currentTree, loc,
                    [NodeAt(currentTree, loc) EXCEPT !.title = value]))
       /\ UNCHANGED <<buffer, nextId>>

\* folder btnCut click
CutFolder(id) ==
    LET loc == findParentAndIndex(currentTree, id)
    IN /\ loc # <<>>
       /\ movingNode' = <<cloneNode(NodeAt(currentTree, loc))>>
       /\ movingLink' = <<>>
       /\ EditedDraft(RemoveAt(currentTree, loc))
       /\ removed' = removed \ NodeIds(<<NodeAt(currentTree, loc)>>)
       /\ UNCHANGED nextId

\* link btnCut click without the reset of movingNode
CutLinkKeepsNode(linkId) ==
    LET p == findLinkParent(currentTree, linkId)
        parentNode == NodeAt(currentTree, p.path)
    IN /\ p.index # 0
       /\ movingLink' = <<parentNode.links[p.index]>>
       /\ Edited(ReplaceNode(currentTree, p.path,
                    [parentNode EXCEPT !.links = SpliceOut(@, p.index)]))
       /\ UNCHANGED <<movingNode, nextId>>

\* link btnCut click
CutLink(linkId) ==
    LET p == findLinkParent(currentTree, linkId)
        parentNode == NodeAt(currentTree, p.path)
    IN /\ p.index # 0
       /\ movingLink' = <<parentNode.links[p.index]>>
       /\ movingNode' = <<>>
       /\ EditedDraft(ReplaceNode(currentTree, p.path,
                         [parentNode EXCEPT !.links = SpliceOut(@, p.index)]))
       /\ removed' = removed \ {linkId}
       /\ UNCHANGED nextId

\* the draft after one branch of btnPaste: x goes to the end of field of the
\* folder id; the draft as it is when the folder is not found
Pushed(tree, id, field, x) ==
    LET loc == findParentAndIndex(tree, id)
    IN IF loc = <<>> THEN tree
       ELSE ReplaceNode(tree, loc,
               IF field = "children"
               THEN [NodeAt(tree, loc) EXCEPT !.children = Append(@, x)]
               ELSE [NodeAt(tree, loc) EXCEPT !.links = Append(@, x)])

\* btnPaste click on the row of folder id: if (movingNode) ..., if (movingLink) ...
Paste(id) ==
    LET loc == findParentAndIndex(currentTree, id)
        withNode == IF movingNode # <<>>
                    THEN Pushed(currentTree, id, "children", cloneNode(movingNode[1]))
                    ELSE currentTree
        withLink == IF movingLink # <<>>
                    THEN Pushed(withNode, id, "links", movingLink[1])
                    ELSE withNode
    IN /\ loc # <<>>
       /\ UNCHANGED nextId
       /\ IF movingNode # <<>> \/ movingLink # <<>>
          THEN /\ Edited(withLink)
               /\ movingNode' = <<>>
               /\ movingLink' = <<>>
          ELSE /\ dialog' = "none"
               /\ UNCHANGED <<session, buffer, backend, tasks, count, removed, timers>>

\* folder btnDel click; answer is what the user tells confirm()
DeleteFolder(id, answer) ==
    LET loc == findParentAndIndex(currentTree, id)
    IN /\ UNCHANGED <<buffer, nextId>>
       /\ IF ~answer
          THEN /\ dialog' = "deleteNo"
               /\ UNCHANGED <<session, backend, tasks, count, removed, timers>>
          ELSE /\ loc # <<>>
               /\ count.del < MaxDeletes /\ Clicks < MaxClicks
               /\ count' = [count EXCEPT !.del = @ + 1]
               /\ currentTree' = RemoveAt(currentTree, loc)
               /\ removed' = removed \cup NodeIds(<<NodeAt(currentTree, loc)>>)
               /\ unsaved' = TRUE
               /\ dialog' = "deleteYes"
               /\ timers' = Held(RemoveAt(currentTree, loc))
               /\ UNCHANGED <<savedTreeSnapshot, backend, tasks>>

\* link btnDel click
DeleteLink(linkId) ==
    LET p == findLinkParent(currentTree, linkId)
        parentNode == NodeAt(currentTree, p.path)
    IN /\ p.index # 0
       /\ Edited(ReplaceNode(currentTree, p.path,
                    [parentNode EXCEPT !.links = SpliceOut(@, p.index)]))
       /\ UNCHANGED <<buffer, nextId>>

\* moveFolder(folderId, direction)
moveFolder(folderId, direction) ==
    LET loc == findParentAndIndex(currentTree, folderId)
        index == loc[Len(loc)]
        parentArray == ParentArrayOf(currentTree, loc)
        newIndex == index + direction
        swapped == swapInArray(parentArray, index, newIndex)
    IN /\ loc # <<>>
       /\ UNCHANGED <<buffer, nextId>>
       /\ IF newIndex < 1 \/ newIndex > Len(parentArray)
          THEN /\ dialog' = "none"
               /\ UNCHANGED <<session, backend, tasks, count, removed, timers>>
          ELSE Edited(IF Len(loc) = 1 THEN swapped
                      ELSE LET pp == SubSeq(loc, 1, Len(loc) - 1)
                           IN ReplaceNode(currentTree, pp,
                                 [NodeAt(currentTree, pp) EXCEPT !.children = swapped]))

\* moveLinkUpDown(linkId, direction)
moveLinkUpDown(linkId, direction) ==
    LET p == findLinkParent(currentTree, linkId)
        parentNode == NodeAt(currentTree, p.path)
        newIndex == p.index + direction
    IN /\ p.index # 0
       /\ UNCHANGED <<buffer, nextId>>
       /\ IF newIndex < 1 \/ newIndex > Len(parentNode.links)
          THEN /\ dialog' = "none"
               /\ UNCHANGED <<session, backend, tasks, count, removed, timers>>
          ELSE Edited(ReplaceNode(currentTree, p.path,
                         [parentNode EXCEPT !.links = swapInArray(@, p.index, newIndex)]))

\* row drop of a folder row, payload {type: 'node', id}: the dragged folder goes
\* before (upper half of the row) or after the folder target
DropNodeOnRow(id, target, before) ==
    LET moved == detachNodeById(currentTree, id)
        targetLoc == findParentAndIndex(moved.list, target)
        idx == IF targetLoc = <<>> THEN -1 ELSE targetLoc[Len(targetLoc)] - 1
        insertIndex == IF before THEN idx ELSE idx + 1
        parentPath == SubSeq(targetLoc, 1, Len(targetLoc) - 1)
    IN /\ id # target
       /\ moved.node # <<>>
       /\ Edited(IF Len(targetLoc) <= 1
                 THEN SpliceIn(moved.list, insertIndex, moved.node[1])
                 ELSE ReplaceNode(moved.list, parentPath,
                         [NodeAt(moved.list, parentPath) EXCEPT
                             !.children = SpliceIn(@, insertIndex, moved.node[1])]))
       /\ UNCHANGED <<buffer, nextId>>

\* the link payload of the drop handlers of a folder row and of a links area:
\* the dragged link goes to the end of the links of the folder target
DropLinkOnFolder(linkId, target) ==
    LET movedLinkObj == detachLinkById(currentTree, linkId)
        loc == findParentAndIndex(movedLinkObj.list, target)
    IN /\ movedLinkObj.link # <<>>
       /\ Edited(IF loc # <<>>
                 THEN Pushed(movedLinkObj.list, target, "links", movedLinkObj.link[1])
                 ELSE IF Len(movedLinkObj.list) > 0
                 THEN [movedLinkObj.list EXCEPT ![1].links = Append(@, movedLinkObj.link[1])]
                 ELSE movedLinkObj.list)
       /\ UNCHANGED <<buffer, nextId>>

\* row drop of a folder row, payload {type: 'link', id}
DropLinkOnRow(linkId, target) == DropLinkOnFolder(linkId, target)

\* linksWrap drop, payload {type: 'link', id}
DropLinkOnLinks(linkId, target) == DropLinkOnFolder(linkId, target)

\* linksWrap drop of a folder without the else branch: a folder whose target
\* is not found after the detach is not put back
DropNodeOnLinksNoFallback(id, target) ==
    LET moved == detachNodeById(currentTree, id)
        loc == findParentAndIndex(moved.list, target)
    IN /\ id # target
       /\ moved.node # <<>>
       /\ Edited(IF loc # <<>>
                 THEN Pushed(moved.list, target, "children", moved.node[1])
                 ELSE moved.list)
       /\ UNCHANGED <<buffer, nextId>>

\* linksWrap drop, payload {type: 'node', id}: the dragged folder becomes the
\* last child of the folder target, or the last root
DropNodeOnLinks(id, target) ==
    LET moved == detachNodeById(currentTree, id)
        loc == findParentAndIndex(moved.list, target)
    IN /\ id # target
       /\ moved.node # <<>>
       /\ Edited(IF loc # <<>>
                 THEN Pushed(moved.list, target, "children", moved.node[1])
                 ELSE Append(moved.list, moved.node[1]))
       /\ UNCHANGED <<buffer, nextId>>

\* row drop of a link row, payload {type: 'link', id}: the dragged link goes
\* before the link targetLink
DropLinkOnLinkRow(linkId, targetLink) ==
    LET moved == detachLinkById(currentTree, linkId)
        parent == findLinkParent(moved.list, targetLink)
        parentNode == NodeAt(moved.list, parent.path)
    IN /\ linkId # targetLink
       /\ moved.link # <<>>
       /\ UNCHANGED <<buffer, nextId>>
       /\ IF parent.index = 0
          THEN /\ currentTree' = moved.list
               /\ dialog' = "none"
               /\ UNCHANGED <<savedTreeSnapshot, unsaved, backend, tasks, count, removed, timers>>
          ELSE Edited(ReplaceNode(moved.list, parent.path,
                         [parentNode EXCEPT
                             !.links = SpliceIn(@, parent.index - 1, moved.link[1])]))

\* row drop of a link row, payload {type: 'node', id}: the dragged folder
\* becomes the last child of the folder that owns targetLink, or the last root
DropNodeOnLinkRow(id, targetLink) ==
    LET node == detachNodeById(currentTree, id)
        parentFolder == findLinkParent(node.list, targetLink)
        pNode == NodeAt(node.list, parentFolder.path)
    IN /\ node.node # <<>>
       /\ Edited(IF parentFolder.index = 0
                 THEN Append(node.list, node.node[1])
                 ELSE ReplaceNode(node.list, parentFolder.path,
                         [pNode EXCEPT !.children = Append(@, node.node[1])]))
       /\ UNCHANGED <<buffer, nextId>>

\* what renderTree puts on the page: toRender
toRender ==
    IF currentQuery # <<>> /\ trim(currentQuery) # <<>>
    THEN filterTree(currentTree, currentQuery)
    ELSE currentTree

\* a search that puts the filtered tree in the place of the draft
SearchIntoDraft(value) ==
    /\ currentQuery' = trim(value)
    /\ currentTree' = filterTree(currentTree, trim(value))
    /\ dialog' = "none"
    /\ UNCHANGED <<savedTreeSnapshot, unsaved, buffer, nextId, backend, load, saves, undo,
                   bind, reader, count, download, removed, timers>>

\* keydown of elSearch with the key Enter and value in the field
Search(value) ==
    /\ currentQuery' = trim(value)
    /\ dialog' = "none"
    /\ UNCHANGED <<session, buffer, nextId, backend, load, saves, undo, bind, reader, count, download, removed, timers>>

\* elClearSearch click
ClearSearch ==
    /\ currentQuery' = <<>>
    /\ dialog' = "none"
    /\ UNCHANGED <<session, buffer, nextId, backend, load, saves, undo, bind, reader, count, download, removed, timers>>

\* the fields of a link that a link row has an input for
LinkFields == {"title", "url"}

\* renderTree made the rows from filterTree's copies, not from the draft
Filtered == currentQuery # <<>> /\ trim(currentQuery) # <<>>

\* the keystrokes of one burst in the title or url input of the row of the link
\* linkId, value being the text of the input after the last of them: debounce
\* starts the 300 ms timer, whose closure holds the link object the row was
\* rendered from
LinkInput(linkId, field, value) ==
    /\ linkId \in LinkIds(toRender)
    /\ Cardinality(timers) < MaxTimers
    /\ \A t \in timers : ~(t.id = linkId /\ t.field = field)
    /\ count.edit < MaxEdits /\ Clicks < MaxClicks
    /\ count' = [count EXCEPT !.edit = @ + 1]
    /\ timers' = timers \cup {[id |-> linkId, field |-> field, value |-> value,
                                live |-> ~Filtered]}
    /\ dialog' = "none"
    /\ UNCHANGED <<session, buffer, nextId, backend, tasks, removed>>

\* the draft after link[field] = value on the link object with the id linkId
WithField(list, linkId, field, value) ==
    LET p == findLinkParent(list, linkId)
        parentNode == NodeAt(list, p.path)
    IN ReplaceNode(list, p.path,
                   [parentNode EXCEPT !.links[p.index][field] = value])

\* the timer t fires: link.title = title.value (link.url = url.value) on the
\* object of the closure, then setUnsaved(true); nothing is rendered
DebounceFire(t) ==
    /\ t \in timers
    /\ timers' = timers \ {t}
    /\ currentTree' = IF t.live THEN WithField(currentTree, t.id, t.field, t.value)
                      ELSE currentTree
    /\ unsaved' = TRUE
    /\ dialog' = "none"
    /\ UNCHANGED <<savedTreeSnapshot, buffer, nextId, backend, tasks, count, removed>>

\* elSort click
Sort ==
    /\ Edited(sortTreeInPlace(currentTree))
    /\ UNCHANGED <<buffer, nextId>>

\* elClean click
Clean ==
    /\ Edited(removeEmptyFolders(currentTree))
    /\ UNCHANGED <<buffer, nextId>>

\* what the user may pick for import: text that is no JSON, null, an array
\* with a null entry and a folder without an id, a tree exported earlier
ImportFiles ==
    {SyntaxError, RNull,
     RArr(<<RNull, RObj([type |-> RStr(FolderTag), title |-> RStr(<<65>>)])>>),
     TreeToRaw(OldBackup)}

\* entries of a links array in a file: null, a string, and objects whose id,
\* title and url are a string, missing, or of another type
RawLinkEntries ==
    {RNull, RStr(<<97>>)}
        \cup {RObj([id |-> i, title |-> t, url |-> u]) :
                 i \in {RUndef, RStr(<<0, 8>>)},
                 t \in {RNull, RStr(<<98>>)},
                 u \in {RArr(<<>>), RStr(<<99>>)}}

\* a well-formed link of a file
RawLink == RObj([id |-> RStr(<<0, 8>>), title |-> RStr(<<98>>), url |-> RStr(<<99>>)])

\* the links field of a folder in a file: missing, no array, or an array
RawLinkLists ==
    {RUndef, RStr(<<97>>), RArr(<<>>), RArr(<<RNull, RawLink>>)}
        \cup {RArr(<<l>>) : l \in RawLinkEntries}

\* a folder object of a file
RawFolder(id, title, children, links) ==
    RObj([type |-> RStr(FolderTag), id |-> id, title |-> title,
          children |-> children, links |-> links])

\* entries that are not folder-shaped: null, a string, an array, an object of
\* another type and an object without a type, the last two with a subtree
RawOthers(children) ==
    {RNull, RStr(<<97>>), RArr(<<>>),
     RObj([type |-> RStr(<<108, 105, 110, 107>>), id |-> RStr(<<0, 4>>),
           title |-> RStr(<<68>>), children |-> children, links |-> RArr(<<RawLink>>)]),
     RObj([id |-> RStr(<<0, 4>>), title |-> RStr(<<68>>), children |-> children])}

\* folders without children
RawLeaves ==
    {RawFolder(i, t, c, l) :
        i \in {RUndef, RStr(<<0, 6>>)}, t \in {RNull, RStr(<<67>>)},
        c \in {RUndef, RStr(<<97>>)}, l \in RawLinkLists}

\* the entries that stand for the others below the root
RawChildren ==
    RawOthers(RUndef)
        \cup {RawFolder(i, RStr(<<67>>), RArr(<<>>), RArr(<<RawLink>>)) :
                 i \in {RUndef, RStr(<<0, 6>>)}}

\* folders with one or two children
RawParents ==
    {RawFolder(i, t, RArr(c), RArr(<<>>)) :
        i \in {RUndef, RStr(<<0, 5>>)}, t \in {RStr(<<66>>)},
        c \in {<<a>> : a \in RawChildren} \cup (RawChildren \X RawChildren)}

\* the entries that stand for the others in a root list of two
RawRoots ==
    RawOthers(RArr(<<RawFolder(RStr(<<0, 6>>), RStr(<<67>>), RArr(<<>>), RArr(<<>>))>>))
        \cup {RawFolder(i, t, RArr(<<>>), RArr(<<>>)) :
                 i \in {RUndef, RStr(<<0, 5>>)}, t \in {RStr(<<66>>), RStr(<<65>>)}}

\* a folder that a file holds as the second of two entries only
RawLast == RawFolder(RStr(<<0, 7>>), RStr(<<69>>), RArr(<<>>), RArr(<<RawLink>>))

\* what JSON.parse makes of the files of the import picker in this model: text
\* that is no JSON, values that are no array, and arrays of one or two entries
RawInputs ==
    {SyntaxError, RNull, RStr(<<97>>), RawFolder(RStr(<<0, 5>>), RStr(<<66>>), RArr(<<>>), RArr(<<>>))}
        \cup {RArr(<<e>>) : e \in RawLeaves \cup RawParents \cup RawRoots}
        \cup {RArr(<<a, b>>) : a \in RawRoots, b \in RawRoots \cup {RawLast}}

RECURSIVE Labelled(_, _)
\* the folders of a list of shapes [title, children, links], each node with an
\* id of its own that starts with prefix: the folder at position i gets
\* prefix \o <<i>>, its j-th link prefix \o <<i, 0, j>>
Labelled(shapes, prefix) ==
    [i \in 1..Len(shapes) |->
        [id |-> prefix \o <<i>>,
         title |-> shapes[i].title,
         children |-> Labelled(shapes[i].children, prefix \o <<i>>),
         links |-> [j \in 1..Len(shapes[i].links) |->
                      [id |-> prefix \o <<i, 0, j>>, title |-> shapes[i].links[j],
                       url |-> <<>>]]]]

\* a folder shape
Shape(title, children, links) == [title |-> title, children |-> children, links |-> links]

\* folders without children: 'B' and 'A' empty, 'a' with the links 'b' and 'A'
LeafShapes ==
    {Shape(<<66>>, <<>>, <<>>), Shape(<<97>>, <<>>, <<<<98>>, <<65>>>>),
     Shape(<<65>>, <<>>, <<>>)}

\* the lists of one or two entries of S
Lists12(S) == {<<a>> : a \in S} \cup {<<a, b>> : a \in S, b \in S}

\* folders 'b' with one or two children, without links or with 'B' and 'a'
InnerShapes ==
    {Shape(<<98>>, c, l) : c \in Lists12(LeafShapes), l \in {<<>>, <<<<66>>, <<97>>>>}}

\* a folder 'a' that holds a folder 'B' that holds a folder 'a' with the links l
DeepShape(l) == Shape(<<97>>, <<Shape(<<66>>, <<Shape(<<97>>, <<>>, l)>>, <<>>)>>, <<>>)

\* the forests a file of the export button may hold
ForestShapes ==
    {<<>>, <<Shape(<<66>>, <<>>, <<>>), Shape(<<97>>, <<>>, <<>>), DeepShape(<<>>)>>}
        \cup {<<a>> : a \in InnerShapes}
        \cup Lists12(LeafShapes
                         \cup {DeepShape(<<>>), DeepShape(<<<<98>>>>),
                               Shape(<<98>>, <<Shape(<<65>>, <<>>, <<>>)>>, <<<<66>>, <<97>>>>)})

\* the files of the export button, parsed
ForestFiles == {TreeToRaw(Labelled(f, <<0>>)) : f \in ForestShapes}

\* elImport change: a FileReader starts to read the file picked
ImportChange(file) ==
    /\ count.edit < MaxEdits /\ Clicks < MaxClicks
    /\ Cardinality(reader) < MaxReaders
    /\ reader' = reader \cup {file}
    /\ count' = [count EXCEPT !.edit = @ + 1]
    /\ dialog' = "none"
    /\ UNCHANGED <<session, buffer, nextId, backend, load, saves, undo, bind, currentQuery, download, removed, timers>>

\* r.onload of a FileReader of elImport: the parsed file, normalized, becomes
\* the draft
Import(parsed) ==
    LET normalized == normalizeTree(parsed, nextId)
    IN /\ parsed \in reader
       /\ reader' = reader \ {parsed}
       /\ UNCHANGED <<savedTreeSnapshot, buffer, backend, load, saves, undo, bind, count, currentQuery, download, removed>>
       /\ IF parsed = SyntaxError
          THEN /\ dialog' = "invalidJson"
               /\ UNCHANGED <<currentTree, unsaved, nextId, timers>>
          ELSE /\ normalized.n <= MaxIds + 1
               /\ currentTree' = normalized.list
               /\ timers' = Stale
               /\ nextId' = normalized.n
               /\ unsaved' = TRUE
               /\ dialog' = "none"

\* a text file in the reader
TxtFile(text) == [t |-> "text", v |-> text]

\* elExport click: exportTreeToTxt(currentTree) makes the file to download
ExportTxt ==
    /\ download' = exportTreeToTxt(currentTree)
    /\ dialog' = "none"
    /\ UNCHANGED <<session, buffer, nextId, backend, load, saves, undo, bind, reader,
                   currentQuery, count, removed, timers>>

\* elImport change of the text import: a FileReader starts to read the file
ImportTxtChange(text) == ImportChange(TxtFile(text))

\* reader.onload of the text import: the tree parsed from the text becomes the
\* draft
ImportTxt(file) ==
    LET st == parseTxtToTree(file.v, nextId)
    IN /\ file \in reader
       /\ file.t = "text"
       /\ st.n <= nextId + MaxTxtIds
       /\ reader' = reader \ {file}
       /\ nextId' = st.n
       /\ UNCHANGED <<savedTreeSnapshot, buffer, backend, load, saves, undo, bind, count,
                      currentQuery, download, removed>>
       /\ IF st.threw
          THEN /\ dialog' = "invalidTxt"
               /\ UNCHANGED <<currentTree, unsaved, timers>>
          ELSE /\ currentTree' = st.root
               /\ timers' = Stale
               /\ unsaved' = TRUE
               /\ dialog' = "none"

\* a Cancel that clears the dirty flag and keeps the draft
CancelKeepsDraft(answer) ==
    /\ UNCHANGED <<savedTreeSnapshot, buffer, nextId, backend, tasks, count, removed, timers>>
    /\ IF ~unsaved
       THEN /\ dialog' = "none"
            /\ UNCHANGED <<currentTree, unsaved>>
       ELSE IF ~answer
       THEN /\ dialog' = "cancelNo"
            /\ UNCHANGED <<currentTree, unsaved>>
       ELSE /\ currentTree' = currentTree
            /\ unsaved' = FALSE
            /\ dialog' = "cancelYes"

\* elCancel click; answer is what the user tells confirm()
Cancel(answer) ==
    /\ UNCHANGED <<savedTreeSnapshot, buffer, nextId, backend, tasks, count, removed>>
    /\ IF ~unsaved
       THEN /\ dialog' = "none"
            /\ UNCHANGED <<currentTree, unsaved, timers>>
       ELSE IF ~answer
       THEN /\ dialog' = "cancelNo"
            /\ UNCHANGED <<currentTree, unsaved, timers>>
       ELSE /\ currentTree' = clone(savedTreeSnapshot)
            /\ timers' = Stale
            /\ unsaved' = FALSE
            /\ dialog' = "cancelYes"

(* ------------------------------- boot -------------------------------- *)
\* loadTree: chrome.storage.local.get([TREE_SOURCE_KEY, STORAGE_KEY]) is served
StorageGetLoad ==
    /\ load.pc = "wait"
    /\ load' = [pc |-> "got", source |-> storage.treeSource, stored |-> storage.linkTree]
    /\ dialog' = "none"
    /\ UNCHANGED <<session, buffer, nextId, backend, saves, undo, bind, count, reader, currentQuery, download, removed, timers>>

\* the tail of loadInitial: normalizeTree(await loadTree()) becomes draft and snapshot
LoadApply(data) ==
    LET tree == normalizeTree(data, nextId)
    IN /\ tree.n <= MaxIds + 1
       /\ nextId' = tree.n
       /\ currentTree' = clone(tree.list)
       /\ savedTreeSnapshot' = clone(tree.list)
       /\ unsaved' = FALSE
       /\ timers' = Stale

\* loadTree resumes with what storage held
LoadResume ==
    /\ load.pc = "got"
    /\ dialog' = "none"
    /\ UNCHANGED <<buffer, backend, saves, undo, bind, count, reader, currentQuery, download, removed>>
    /\ IF load.source = SourceFile /\ boundFileHandle
       THEN /\ load' = [load EXCEPT !.pc = "file"]
            /\ UNCHANGED <<session, nextId, timers>>
       ELSE /\ load' = [load EXCEPT !.pc = "done"]
            /\ LoadApply(RArr(safeArray(load.stored)))

\* loadTree resumes with the text of the bound file
LoadFile ==
    /\ load.pc = "file"
    /\ load' = [load EXCEPT !.pc = "done"]
    /\ dialog' = "none"
    /\ UNCHANGED <<buffer, backend, saves, undo, bind, count, reader, currentQuery, download, removed>>
    /\ IF fileText = SyntaxError
       THEN UNCHANGED <<session, nextId, timers>>
       ELSE LoadApply(fileText)

(* ------------------------------- save -------------------------------- *)
\* the last entries of the history, at most two
Recent(h) == IF Len(h) > 2 THEN SubSeq(h, Len(h) - 1, Len(h)) ELSE h

\* a write that is done (ok) or fails
Written(ok) ==
    /\ ok \/ count.fail < MaxFailures
    /\ count' = IF ok THEN count ELSE [count EXCEPT !.fail = @ + 1]

\* the Save clicks in flight, with s taken to its next step
Stepped(s, next) == (saves \ {s}) \cup {next}

\* elSave click: normalizeTree(currentTree), then the read of treeSource is awaited
SaveClick ==
    LET normalized == normalizeTree(TreeToRaw(currentTree), nextId)
    IN /\ count.save < MaxSaves /\ Clicks < MaxClicks
       /\ normalized.n <= MaxIds + 1
       /\ count' = [count EXCEPT !.save = @ + 1]
       /\ saves' = saves \cup {[id |-> count.save + 1, pc |-> "srcWait",
                                tree |-> normalized.list, res |-> RUndef,
                                failed |-> FALSE]}
       /\ nextId' = normalized.n
       /\ chain' = IF saves # {} THEN <<>> ELSE chain
       /\ dialog' = "none"
       /\ UNCHANGED <<session, buffer, store, load, undo, bind, reader, currentQuery, download, removed, timers>>

\* chrome.storage.local.get([TREE_SOURCE_KEY]) of save s is served
StorageGetSource(s) ==
    /\ s.pc = "srcWait"
    /\ saves' = Stepped(s, [s EXCEPT !.pc = "srcGot", !.res = storage.treeSource])
    /\ dialog' = "none"
    /\ UNCHANGED <<session, buffer, nextId, backend, load, undo, bind, count, reader, currentQuery, download, removed, timers>>

\* a Save handler that goes to chrome.storage.local whatever the source is
SaveResumeLocal(s) ==
    /\ s.pc = "srcGot"
    /\ UNCHANGED <<session, buffer, nextId, backend, load, undo, bind, count, reader, currentQuery, download, removed, timers>>
    /\ saves' = Stepped(s, [s EXCEPT !.pc = "getWait"])
    /\ dialog' = "none"

\* the Save handler resumes: saveTreeToBoundFile or persistToStorage
SaveResume(s) ==
    /\ s.pc = "srcGot"
    /\ UNCHANGED <<session, buffer, nextId, backend, load, undo, bind, count, reader, currentQuery, download, removed, timers>>
    /\ IF s.res = SourceFile
       THEN IF ~boundFileHandle
            THEN /\ saves' = saves \ {s}
                 /\ dialog' = "saveError"
            ELSE /\ saves' = Stepped(s, [s EXCEPT !.pc = "fileWait"])
                 /\ dialog' = "none"
       ELSE /\ saves' = Stepped(s, [s EXCEPT !.pc = "getWait"])
            /\ dialog' = "none"

\* createWritable, write and close of the bound file: done (ok) or thrown
FileWrite(s, ok) ==
    /\ s.pc = "fileWait"
    /\ saves' = Stepped(s, [s EXCEPT !.pc = "fileDone", !.failed = ~ok])
    /\ fileText' = IF ok THEN TreeToRaw(s.tree) ELSE fileText
    /\ Written(ok)
    /\ dialog' = "none"
    /\ UNCHANGED <<session, buffer, nextId, storage, boundFileHandle, chain,
                   load, undo, bind, reader, currentQuery, download, removed, timers>>

\* the Save handler resumes after saveTreeToBoundFile
SaveFileDone(s) ==
    /\ s.pc = "fileDone"
    /\ saves' = saves \ {s}
    /\ UNCHANGED <<currentTree, buffer, nextId, backend, load, undo, bind, count, reader, currentQuery, download, removed, timers>>
    /\ IF s.failed
       THEN /\ dialog' = "saveError"
            /\ UNCHANGED <<savedTreeSnapshot, unsaved>>
       ELSE /\ savedTreeSnapshot' = clone(s.tree)
            /\ unsaved' = FALSE
            /\ dialog' = "savedFile"

\* a persistToStorage that takes the tree being saved for the persisted one
persistReadDraft(s) ==
    /\ s.pc = "getWait"
    /\ saves' = Stepped(s, [s EXCEPT !.pc = "bkWait", !.res = TreeToRaw(s.tree)])
    /\ dialog' = "none"
    /\ UNCHANGED <<session, buffer, nextId, backend, load, undo, bind, count, reader, currentQuery, download, removed, timers>>

\* persistToStorage: chrome.storage.local.get([STORAGE_KEY]) of save s is served
\* and its callback runs: current = safeArray(res[STORAGE_KEY]), and the write
\* of the backup slot is asked for (the callback reads nothing of the page)
persistRead(s) ==
    /\ s.pc = "getWait"
    /\ saves' = Stepped(s, [s EXCEPT !.pc = "bkWait",
                                     !.res = RArr(safeArray(storage.linkTree))])
    /\ dialog' = "none"
    /\ UNCHANGED <<session, buffer, nextId, backend, load, undo, bind, count, reader, currentQuery, download, removed, timers>>

\* a persistToStorage that keeps the first backup: the slot is written only
\* while it is absent
persistBackupKept(s, ok) ==
    /\ s.pc = "bkWait"
    /\ saves' = Stepped(s, [s EXCEPT !.pc = "prWait", !.failed = ~ok])
    /\ storage' = IF ok /\ storage.linkTree_backup = RUndef
                  THEN [storage EXCEPT !.linkTree_backup = s.res] ELSE storage
    /\ chain' = IF ok THEN chain ELSE <<>>
    /\ Written(ok)
    /\ dialog' = "none"
    /\ UNCHANGED <<session, buffer, nextId, boundFileHandle, fileText,
                   load, undo, bind, reader, currentQuery, download, removed, timers>>

\* chrome.storage.local.set({[BACKUP_KEY]: current}): done (ok) or failed with
\* runtime.lastError set; its callback is called either way and asks for the
\* write of the primary slot
persistBackup(s, ok) ==
    /\ s.pc = "bkWait"
    /\ saves' = Stepped(s, [s EXCEPT !.pc = "prWait", !.failed = ~ok])
    /\ storage' = IF ok THEN [storage EXCEPT !.linkTree_backup = s.res] ELSE storage
    /\ chain' = IF ok THEN chain ELSE <<>>
    /\ Written(ok)
    /\ dialog' = "none"
    /\ UNCHANGED <<session, buffer, nextId, boundFileHandle, fileText,
                   load, undo, bind, reader, currentQuery, download, removed, timers>>

\* chrome.storage.local.set({[STORAGE_KEY]: tree}): done (ok) or failed with
\* runtime.lastError set
persistPrimary(s, ok) ==
    /\ s.pc = "prWait"
    /\ saves' = Stepped(s, [s EXCEPT !.pc = "prDone", !.failed = s.failed \/ ~ok])
    /\ storage' = IF ok THEN [storage EXCEPT !.linkTree = TreeToRaw(s.tree)] ELSE storage
    /\ chain' = IF ok THEN chain ELSE <<>>
    /\ Written(ok)
    /\ dialog' = "none"
    /\ UNCHANGED <<session, buffer, nextId, boundFileHandle, fileText,
                   load, undo, bind, reader, currentQuery, download, removed, timers>>

\* persistToStorage, third callback, cb(): the completion callback of elSave
SaveDone(s) ==
    /\ s.pc = "prDone"
    /\ saves' = saves \ {s}
    /\ savedTreeSnapshot' = clone(s.tree)
    /\ unsaved' = FALSE
    /\ dialog' = "saved"
    /\ chain' = IF chain # <<>> THEN Append(Recent(chain), TreeToRaw(s.tree)) ELSE <<>>
    /\ UNCHANGED <<currentTree, buffer, nextId, store, load, undo, bind, count, reader, currentQuery, download, removed, timers>>

(* ------------------------------ restore ------------------------------ *)
\* elUndo click: loadBackup asks for the backup slot
UndoClick ==
    /\ count.undo < MaxUndos /\ Clicks < MaxClicks
    /\ undo = <<>>
    /\ count' = [count EXCEPT !.undo = @ + 1]
    /\ undo' = <<[pc |-> "wait", res |-> RUndef, prev |-> <<>>]>>
    /\ dialog' = "none"
    /\ UNCHANGED <<session, buffer, nextId, backend, load, saves, bind, reader, currentQuery, download, removed, timers>>

\* what the primary slot held before the last save of the history, when there
\* is one and no save is in flight: <<>> or <<value>>
Persisted ==
    IF saves = {} /\ Len(chain) >= 2 THEN <<chain[Len(chain) - 1]>> ELSE <<>>

\* chrome.storage.local.get([BACKUP_KEY]) is served; prev remembers Persisted
StorageGetBackup ==
    /\ undo # <<>>
    /\ undo[1].pc = "wait"
    /\ undo' = <<[pc |-> "got", res |-> storage.linkTree_backup, prev |-> Persisted]>>
    /\ dialog' = "none"
    /\ UNCHANGED <<session, buffer, nextId, backend, load, saves, bind, count, reader, currentQuery, download, removed, timers>>

\* a restore that leaves the snapshot alone
UndoDoneDraftOnly(answer) ==
    LET backup == normalizeTree(undo[1].res, nextId)
    IN /\ undo # <<>>
       /\ undo[1].pc = "got"
       /\ backup.n <= MaxIds + 1
       /\ undo' = <<>>
       /\ nextId' = backup.n
       /\ UNCHANGED <<buffer, backend, load, saves, bind, count, reader, currentQuery, download, removed, timers>>
       /\ IF Len(backup.list) = 0
          THEN /\ dialog' = "noBackup"
               /\ UNCHANGED session
          ELSE IF ~answer
          THEN /\ dialog' = "restoreNo"
               /\ UNCHANGED session
          ELSE /\ currentTree' = clone(backup.list)
               /\ unsaved' = TRUE
               /\ dialog' = "restoreYes"
               /\ UNCHANGED savedTreeSnapshot

\* a restore that takes an empty backup for a tree to restore
UndoDoneEmptied(answer) ==
    LET backup == normalizeTree(undo[1].res, nextId)
    IN /\ undo # <<>>
       /\ undo[1].pc = "got"
       /\ backup.n <= MaxIds + 1
       /\ undo' = <<>>
       /\ nextId' = backup.n
       /\ UNCHANGED <<buffer, backend, load, saves, bind, count, reader, currentQuery, download, removed, timers>>
       /\ IF ~answer
          THEN /\ dialog' = "restoreNo"
               /\ UNCHANGED session
          ELSE /\ currentTree' = clone(backup.list)
               /\ savedTreeSnapshot' = clone(backup.list)
               /\ unsaved' = TRUE
               /\ dialog' = "restoreYes"

\* the callback of loadBackup in the elUndo handler; answer is the user's
UndoDone(answer) ==
    LET backup == normalizeTree(undo[1].res, nextId)
    IN /\ undo # <<>>
       /\ undo[1].pc = "got"
       /\ backup.n <= MaxIds + 1
       /\ undo' = <<>>
       /\ nextId' = backup.n
       /\ UNCHANGED <<buffer, backend, load, saves, bind, count, reader, currentQuery, download, removed>>
       /\ IF Len(backup.list) = 0
          THEN /\ dialog' = "noBackup"
               /\ UNCHANGED <<session, timers>>
          ELSE IF ~answer
          THEN /\ dialog' = "restoreNo"
               /\ UNCHANGED <<session, timers>>
          ELSE /\ currentTree' = clone(backup.list)
               /\ timers' = Stale
               /\ savedTreeSnapshot' = clone(backup.list)
               /\ unsaved' = TRUE
               /\ dialog' = "restoreYes"

(* ----------------------------- bind file ----------------------------- *)
\* what the file the user binds may hold: no JSON, JSON that is no array, a tree
BindFiles == {SyntaxError, RNull, TreeToRaw(OldBackup)}

\* the statement after the try/catch of the bind handler is reached: the write
\* of {[STORAGE_KEY]: currentTree} is asked for
BindFinal(tree) == bind' = <<[pc |-> "finalWait", tree |-> RUndef, val |-> TreeToRaw(tree)]>>

\* bindFileBtn click: showOpenFilePicker opens
BindClick ==
    /\ count.bind < MaxBinds /\ Clicks < MaxClicks
    /\ bind = <<>>
    /\ count' = [count EXCEPT !.bind = @ + 1]
    /\ bind' = <<[pc |-> "pick", tree |-> RUndef, val |-> RUndef]>>
    /\ dialog' = "none"
    /\ UNCHANGED <<session, buffer, nextId, backend, load, saves, undo, reader, currentQuery, download, removed, timers>>

\* the picker is dismissed: showOpenFilePicker throws, the catch block runs
BindCancelled ==
    /\ bind # <<>> /\ bind[1].pc = "pick"
    /\ BindFinal(currentTree)
    /\ dialog' = "none"
    /\ UNCHANGED <<session, buffer, nextId, backend, load, saves, undo, count, reader, currentQuery, download, removed, timers>>

\* requestPermission answers other than 'granted': return
BindDenied ==
    /\ bind # <<>> /\ bind[1].pc = "pick"
    /\ bind' = <<>>
    /\ dialog' = "none"
    /\ UNCHANGED <<session, buffer, nextId, backend, load, saves, undo, count, reader, currentQuery, download, removed, timers>>

\* a file is picked and read: JSON.parse(text), the array test, the handle is kept
BindPicked(text) ==
    /\ bind # <<>> /\ bind[1].pc = "pick"
    /\ UNCHANGED <<session, buffer, nextId, storage, chain, load, saves, undo, count, reader, currentQuery, download, removed, timers>>
    /\ IF text = SyntaxError
       THEN /\ BindFinal(currentTree)
            /\ dialog' = "none"
            /\ UNCHANGED <<boundFileHandle, fileText>>
       ELSE IF text.t # "array"
       THEN /\ bind' = <<>>
            /\ dialog' = "badJson"
            /\ UNCHANGED <<boundFileHandle, fileText>>
       ELSE /\ bind' = <<[pc |-> "srcWait", tree |-> text, val |-> RUndef]>>
            /\ boundFileHandle' = TRUE
            /\ fileText' = text
            /\ dialog' = "none"

\* chrome.storage.local.set({[TREE_SOURCE_KEY]: 'file'}): done (ok) or rejected
StorageSetSource(ok) ==
    /\ bind # <<>> /\ bind[1].pc = "srcWait"
    /\ bind' = <<[bind[1] EXCEPT !.pc = IF ok THEN "srcDone" ELSE "srcFailed"]>>
    /\ storage' = IF ok THEN [storage EXCEPT !.treeSource = SourceFile] ELSE storage
    /\ Written(ok)
    /\ dialog' = "none"
    /\ UNCHANGED <<session, buffer, nextId, boundFileHandle, fileText, chain,
                   load, saves, undo, reader, currentQuery, download, removed, timers>>

\* the bind handler resumes: the file's tree becomes draft and snapshot, or the
\* catch block runs; then the write of the primary slot is asked for
BindResume ==
    LET tree == normalizeTree(bind[1].tree, nextId)
    IN /\ bind # <<>> /\ bind[1].pc \in {"srcDone", "srcFailed"}
       /\ UNCHANGED <<buffer, backend, load, saves, undo, count, reader, currentQuery, download, removed>>
       /\ IF bind[1].pc = "srcFailed"
          THEN /\ BindFinal(currentTree)
               /\ dialog' = "none"
               /\ UNCHANGED <<session, nextId, timers>>
          ELSE /\ tree.n <= MaxIds + 1
               /\ nextId' = tree.n
               /\ currentTree' = tree.list
               /\ timers' = Stale
               /\ savedTreeSnapshot' = clone(tree.list)
               /\ unsaved' = FALSE
               /\ dialog' = "bound"
               /\ BindFinal(tree.list)

\* chrome.storage.local.set({[STORAGE_KEY]: currentTree}) of the bind handler:
\* done (ok) or rejected
StorageSetBound(ok) ==
    /\ bind # <<>> /\ bind[1].pc = "finalWait"
    /\ bind' = <<>>
    /\ storage' = IF ok THEN [storage EXCEPT !.linkTree = bind[1].val] ELSE storage
    /\ chain' = IF ok THEN <<>> ELSE chain
    /\ Written(ok)
    /\ dialog' = "none"
    /\ UNCHANGED <<session, buffer, nextId, boundFileHandle, fileText,
                   load, saves, undo, reader, currentQuery, download, removed, timers>>

\* unbindFileBtn click: BOUND_FILE_KEY is declared nowhere in the scripts, so
\* building the argument of chrome.storage.local.remove throws a
\* ReferenceError; the handler ends before any storage call and before alert
UnbindClick ==
    /\ count.unbind < MaxUnbinds /\ Clicks < MaxClicks
    /\ count' = [count EXCEPT !.unbind = @ + 1]
    /\ dialog' = "none"
    /\ UNCHANGED <<session, buffer, nextId, backend, load, saves, undo, bind, reader, currentQuery, download, removed, timers>>

(* --------------------------- specification --------------------------- *)
\* loadInitial
NextLoad ==
    \/ StorageGetLoad
    \/ LoadResume

\* the handlers that add, rename and reorder at the root, and Cancel
NextDraft ==
    \/ AddRoot
    \/ \E id \in FolderIds(currentTree), value \in TypedTitles : TitleInput(id, value)
    \/ Sort
    \/ \E answer \in BOOLEAN : Cancel(answer)

\* the drop handlers: a folder or a link is dragged onto a folder row, a links
\* area or a link row
NextDrop ==
    \/ \E id, target \in FolderIds(currentTree), before \in BOOLEAN :
          DropNodeOnRow(id, target, before)
    \/ \E linkId \in LinkIds(currentTree), target \in FolderIds(currentTree) :
          DropLinkOnRow(linkId, target)
    \/ \E id, target \in FolderIds(currentTree) : DropNodeOnLinks(id, target)
    \/ \E linkId \in LinkIds(currentTree), target \in FolderIds(currentTree) :
          DropLinkOnLinks(linkId, target)
    \/ \E linkId, targetLink \in LinkIds(currentTree) : DropLinkOnLinkRow(linkId, targetLink)
    \/ \E id \in FolderIds(currentTree), targetLink \in LinkIds(currentTree) :
          DropNodeOnLinkRow(id, targetLink)

\* every editing handler of the page
NextEdit ==
    \/ AddRoot
    \/ \E id \in FolderIds(currentTree) : AddChild(id)
    \/ \E id \in FolderIds(currentTree) : AddLink(id)
    \/ \E id \in FolderIds(currentTree), value \in TypedTitles : TitleInput(id, value)
    \/ \E id \in FolderIds(currentTree) : CutFolder(id)
    \/ \E linkId \in LinkIds(currentTree) : CutLink(linkId)
    \/ \E id \in FolderIds(currentTree) : Paste(id)
    \/ \E id \in FolderIds(currentTree), answer \in BOOLEAN : DeleteFolder(id, answer)
    \/ \E linkId \in LinkIds(currentTree) : DeleteLink(linkId)
    \/ \E id \in FolderIds(currentTree), direction \in {-1, 1} : moveFolder(id, direction)
    \/ \E linkId \in LinkIds(currentTree), direction \in {-1, 1} :
          moveLinkUpDown(linkId, direction)
    \/ NextDrop
    \/ Sort
    \/ Clean
    \/ \E file \in ImportFiles : ImportChange(file)
    \/ \E parsed \in reader : Import(parsed)
    \/ \E answer \in BOOLEAN : Cancel(answer)

\* Save through chrome.storage.local
NextSave ==
    \/ SaveClick
    \/ \E s \in saves : StorageGetSource(s)
    \/ \E s \in saves : SaveResume(s)
    \/ \E s \in saves : persistRead(s)
    \/ \E s \in saves, ok \in BOOLEAN : persistBackup(s, ok)
    \/ \E s \in saves, ok \in BOOLEAN : persistPrimary(s, ok)
    \/ \E s \in saves : SaveDone(s)

\* restore from backup
NextUndo ==
    \/ UndoClick
    \/ StorageGetBackup
    \/ \E answer \in BOOLEAN : UndoDone(answer)

\* binding a file, and Save and boot through the bound file
NextFile ==
    \/ LoadFile
    \/ \E s \in saves, ok \in BOOLEAN : FileWrite(s, ok)
    \/ \E s \in saves : SaveFileDone(s)
    \/ BindClick
    \/ BindCancelled
    \/ BindDenied
    \/ \E text \in BindFiles : BindPicked(text)
    \/ \E ok \in BOOLEAN : StorageSetSource(ok)
    \/ BindResume
    \/ \E ok \in BOOLEAN : StorageSetBound(ok)
    \/ UnbindClick

Next == NextLoad \/ NextDraft \/ NextSave \/ NextUndo

\* the save and restore protocol over chrome.storage.local
Spec == Init /\ [][Next]_vars

\* the editing handlers on the loaded tree
SpecEdit == Init /\ [][NextLoad \/ NextEdit]_vars

\* Save and boot with a file bound
SpecFile == Init /\ [][NextLoad \/ NextSave \/ NextFile]_vars

\* the import of a file of any shape
NextImport ==
    \/ \E file \in RawInputs : ImportChange(file)
    \/ \E parsed \in reader : Import(parsed)

\* the folders that a caller of insertNodeIntoParent hands over: a folder with
\* links and a folder with a child, with ids that no file holds
FreshNodes ==
    {Labelled(<<f>>, <<7>>)[1] :
        f \in {Shape(<<97>>, <<>>, <<<<98>>>>), Shape(<<66>>, <<Shape(<<65>>, <<>>, <<>>)>>, <<>>)}}

\* the values of index a caller hands over
Indexes == -1..2

\* a call insertNodeIntoParent(currentTree, parentId, index, nodeToInsert) with
\* a folder whose ids do not occur in the draft: the draft changes in place
InsertFresh(parentId, index, nodeToInsert) ==
    /\ (FolderIds(<<nodeToInsert>>) \cup LinkIds(<<nodeToInsert>>))
          \cap (FolderIds(currentTree) \cup LinkIds(currentTree)) = {}
    /\ currentTree' = insertNodeIntoParent(currentTree, parentId, index, nodeToInsert).list
    /\ UNCHANGED <<savedTreeSnapshot, unsaved, buffer, nextId, backend, tasks, dialog, count, removed, timers>>

\* the files whose trees a caller of insertNodeIntoParent works on: no folder,
\* three root folders, one root folder with one or two children
InsertFiles ==
    {TreeToRaw(Labelled(f, <<0>>)) :
        f \in {<<>>, <<Shape(<<66>>, <<>>, <<>>), Shape(<<97>>, <<>>, <<>>), DeepShape(<<>>)>>}
                  \cup {<<a>> : a \in {x \in InnerShapes : x.links = <<>>}}}

\* insertNodeIntoParent on the imported forests
NextInsert ==
    \/ \E file \in InsertFiles : ImportChange(file)
    \/ \E parsed \in reader : Import(parsed)
    \/ \E parentId \in FolderIds(currentTree) \cup {NullId, RootName},
          index \in Indexes, nodeToInsert \in FreshNodes :
          InsertFresh(parentId, index, nodeToInsert)

\* the import of exported files and insertNodeIntoParent
SpecInsert == Init /\ [][NextLoad \/ NextInsert]_vars

RECURSIVE WithUrls(_)
\* the tree with a url for every link: 'cA' for a link 'b', 'd' for the others
WithUrls(list) ==
    [i \in 1..Len(list) |->
        [id |-> list[i].id,
         title |-> list[i].title,
         children |-> WithUrls(list[i].children),
         links |-> [j \in 1..Len(list[i].links) |->
                      [id |-> list[i].links[j].id,
                       title |-> list[i].links[j].title,
                       url |-> IF list[i].links[j].title = <<98>> THEN <<99, 65>>
                               ELSE <<100>>]]]]

\* the files of the trees that are searched: one root folder 'b' with one or
\* two children, two root folders, a folder in a folder in a folder
SearchFiles ==
    {TreeToRaw(WithUrls(Labelled(f, <<0>>))) :
        f \in {<<a>> : a \in InnerShapes}
                 \cup {<<a, DeepShape(<<<<98>>>>)>> : a \in LeafShapes}
                 \cup {<<DeepShape(<<>>)>>}}

\* what the user types into the search field: 'b', 'B', 'ca', 'b c', 'a' with
\* spaces around it, 'x', one space, nothing
SearchValues ==
    {<<98>>, <<66>>, <<99, 97>>, <<98, 32, 99>>, <<32, 97, 32>>, <<120>>, <<32>>, <<>>}

\* search on the imported trees
NextSearch ==
    \/ \E file \in SearchFiles : ImportChange(file)
    \/ \E parsed \in reader : Import(parsed)
    \/ \E value \in SearchValues : Search(value)
    \/ ClearSearch

\* the import of exported files and the search field
SpecSearch == Init /\ [][NextLoad \/ NextSearch]_vars

RECURSIVE WithUrlsOf(_, _)
\* the tree with the url u[title] for every link
WithUrlsOf(list, u) ==
    [i \in 1..Len(list) |->
        [id |-> list[i].id,
         title |-> list[i].title,
         children |-> WithUrlsOf(list[i].children, u),
         links |-> [j \in 1..Len(list[i].links) |->
                      [id |-> list[i].links[j].id,
                       title |-> list[i].links[j].title,
                       url |-> u[list[i].links[j].title]]]]]

\* the titles of the links of the shapes: 'b', 'A', 'B', 'a'
LinkTitles == {<<98>>, <<65>>, <<66>>, <<97>>}

\* the urls of the links by title: 'http' and 'httpd' for all; none for all;
\* 'd' for the links 'b' and 'http' for the others
UrlMaps ==
    {[t \in LinkTitles |-> IF t = <<98>> THEN TxtHttp ELSE TxtHttp \o <<100>>],
     [t \in LinkTitles |-> <<>>],
     [t \in LinkTitles |-> IF t = <<98>> THEN <<100>> ELSE TxtHttp]}

\* the forests of the text files: none, a folder ' a' with spaces, a folder 'b'
\* with two links and two children, and a leaf before a folder three deep
TxtShapes ==
    {<<>>, <<Shape(<<32, 97>>, <<>>, <<<<98>>>>)>>,
     <<Shape(<<98>>, <<Shape(<<66>>, <<>>, <<>>), Shape(<<97>>, <<>>, <<<<98>>, <<65>>>>)>>,
             <<<<66>>, <<97>>>>)>>}
        \cup {<<a, DeepShape(<<<<98>>>>)>> : a \in LeafShapes}

\* the files of the JSON import that hold them
TxtForestFiles == {TreeToRaw(WithUrlsOf(Labelled(f, <<0>>), u)) : f \in TxtShapes, u \in UrlMaps}

\* texts written by hand: a link and a url before the first folder; folders at
\* one, three and five spaces; a url without a link, lines of no kind and a
\* second header; a folder four deep below the root, then one level up; three
\* folders in steps, then a folder that closes two of them, a url after it, two
\* links with two urls after the second, and a folder that closes all
OddTexts ==
    {Join(<<LinkSign \o <<32, 97>>, TxtHttp, FolderSign \o <<32, 98>>>>),
     Join(<<Spaces(1) \o FolderSign \o <<32, 97>>,
            Spaces(5) \o FolderSign \o <<32, 98>>,
            Spaces(3) \o FolderSign \o <<32, 99>>,
            Spaces(4) \o LinkSign \o <<32, 100>>,
            TxtHttp \o <<32>>>>),
     Join(<<TxtHeader, FolderSign \o <<97>>, Spaces(2) \o TxtHttp, <<120, 32, 121>>,
            Spaces(2) \o LinkSign, <<120>>, TxtRule, Spaces(5) \o TxtHttp \o <<120>>,
            Spaces(1) \o TxtRule, <<>>>>),
     Join(<<FolderSign \o <<32, 97>>, Spaces(8) \o FolderSign \o <<32, 98>>,
            Spaces(6) \o FolderSign \o <<32, 99>>, Spaces(7) \o LinkSign \o <<32, 32, 100, 32>>,
            FolderSign>>),
     Join(<<FolderSign \o <<32, 97>>, Spaces(2) \o FolderSign \o <<32, 98>>,
            Spaces(4) \o FolderSign \o <<32, 99>>, Spaces(6) \o LinkSign \o <<32, 100>>,
            Spaces(1) \o FolderSign \o <<32, 101>>, TxtHttp \o <<120>>,
            Spaces(3) \o LinkSign \o <<32, 102>>, Spaces(3) \o LinkSign \o <<32, 103>>,
            TxtHttp, Spaces(9) \o TxtHttp \o <<100>>, FolderSign \o <<32, 104>>>>),
     <<>>}

\* export to text and import of text on the imported forests
NextTxt ==
    \/ \E file \in TxtForestFiles : ImportChange(file)
    \/ \E parsed \in {r \in reader : r.t # "text"} : Import(parsed)
    \/ ExportTxt
    \/ \E text \in OddTexts \cup {download} : ImportTxtChange(text)
    \/ \E file \in reader : ImportTxt(file)

\* the text export and the text import
SpecTxt == Init /\ [][NextLoad \/ NextTxt]_vars

\* sort and prune on the imported forests
NextForest ==
    \/ \E file \in ForestFiles : ImportChange(file)
    \/ \E parsed \in reader : Import(parsed)
    \/ Sort
    \/ Clean

\* the import of exported files, Sort and Clean
SpecForest == Init /\ [][NextLoad \/ NextForest]_vars

\* the import picker on the page while it loads or after it loaded
SpecImport == Init /\ [][NextLoad \/ NextImport]_vars

\* the inputs of the link rows, the search field, Cancel, cut and paste
NextType ==
    \/ \E linkId \in LinkIds(toRender), field \in LinkFields, value \in TypedTitles :
          LinkInput(linkId, field, value)
    \/ \E t \in timers : DebounceFire(t)
    \/ \E value \in SearchValues : Search(value)
    \/ ClearSearch
    \/ \E answer \in BOOLEAN : Cancel(answer)
    \/ \E linkId \in LinkIds(currentTree) : CutLink(linkId)
    \/ \E id \in FolderIds(currentTree) : Paste(id)

\* typing in the link rows of the loaded tree
SpecType == Init /\ [][NextLoad \/ NextType]_vars

(* ------------------------------ the claims --------------------------- *)
\* C1: in every reachable state, a draft that differs structurally from the
\* snapshot has the dirty flag set, also when the draft is edited between a
\* Save click and that save's completion callback.
C1_DirtyWhenDiffers == (currentTree # savedTreeSnapshot) => unsaved

\* C2: in every reachable state the dirty flag is set only if the draft
\* differs structurally from the snapshot (sorting a sorted tree, restoring
\* from backup do not leave it set).
C2_DirtyOnlyWhenDiffers == unsaved => (currentTree # savedTreeSnapshot)

\* C3: the completion step of a save (the step that takes the save past the
\* write of the primary slot and out of flight) finds the primary slot holding
\* exactly the normalized tree being committed, makes the snapshot a copy of
\* that tree and leaves the dirty flag false.
C3_CommitAfterDurableWrite ==
    [][\A s \in saves :
          (s.pc = "prDone" /\ \A t \in saves' : t.id # s.id) =>
             /\ storage.linkTree = TreeToRaw(s.tree)
             /\ savedTreeSnapshot' = s.tree
             /\ ~unsaved']_vars

\* C4: Cancel with the dirty flag set and the confirmation given makes the
\* draft structurally equal to the snapshot and clears the flag, the snapshot
\* and both storage slots as they were; with the flag clear or the
\* confirmation declined it changes none of them.
C4_Cancel ==
    [][\A answer \in BOOLEAN :
          Cancel(answer) =>
             IF unsaved /\ answer
             THEN /\ currentTree' = savedTreeSnapshot
                  /\ ~unsaved'
                  /\ UNCHANGED <<savedTreeSnapshot, storage>>
             ELSE UNCHANGED <<currentTree, savedTreeSnapshot, unsaved, storage>>]_vars

\* C4, its case: a confirmed Cancel has just brought an edited draft back
C4_Witness ==
    /\ dialog = "cancelYes"
    /\ count.edit > 0
    /\ ~unsaved
    /\ currentTree = savedTreeSnapshot

\* C5: the backup slot is written only by a save that has read the primary
\* slot, with what it read, and the primary slot only by a save that is past
\* its backup write, with the tree being saved; once two saves B and then C
\* have completed one after the other on top of persisted A, the backup slot
\* holds B and the primary slot holds C.
C5_BackupRotation ==
    /\ []((saves = {} /\ Len(chain) = 3) =>
             (storage.linkTree = chain[3] /\ storage.linkTree_backup = chain[2]))
    /\ [][/\ (storage'.linkTree_backup # storage.linkTree_backup) =>
                \E s \in saves : s.pc = "bkWait" /\ storage'.linkTree_backup = s.res
          /\ (storage'.linkTree # storage.linkTree) =>
                \E s \in saves : s.pc = "prWait" /\ storage'.linkTree = TreeToRaw(s.tree)]_vars

\* C5, its case: A, B and C differ from one another, both saves are complete
C5_Witness ==
    /\ saves = {}
    /\ Len(chain) = 3
    /\ chain[1].t = "array"
    /\ chain[1] # chain[2] /\ chain[2] # chain[3] /\ chain[1] # chain[3]
    /\ storage.linkTree_backup = chain[2]
    /\ storage.linkTree = chain[3]

\* C6 as stated: for every persisted tree A, the empty tree of first use
\* included, a confirmed restore after the commit of B yields a draft
\* structurally equal to A.
C6_RoundTripAny ==
    [][(undo # <<>> /\ undo[1].prev # <<>> /\ UndoDone(TRUE)) =>
          currentTree' = normalizeTree(undo[1].prev[1], nextId).list]_vars

\* C6 amended: for every persisted tree A that is not empty, a confirmed
\* restore after the commit of B yields a draft structurally equal to A.
C6_RoundTrip ==
    [][(/\ undo # <<>>
        /\ undo[1].prev # <<>>
        /\ normalizeTree(undo[1].prev[1], nextId).list # <<>>
        /\ UndoDone(TRUE)) =>
          currentTree' = normalizeTree(undo[1].prev[1], nextId).list]_vars

\* C6, its case: the restore has just brought back A, which differs from the
\* committed B
C6_Witness ==
    /\ dialog = "restoreYes"
    /\ saves = {}
    /\ Len(chain) >= 2
    /\ currentTree # <<>>
    /\ TreeToRaw(currentTree) = chain[Len(chain) - 1]
    /\ chain[Len(chain) - 1] # chain[Len(chain)]

\* C7: a confirmed restore from a backup slot that is not empty sets the draft
\* and the snapshot to the normalized backup tree and the dirty flag, and
\* writes neither slot.
C7_Restore ==
    [][\A answer \in BOOLEAN :
          (undo # <<>> /\ safeArray(undo[1].res) # <<>> /\ answer /\ UndoDone(answer)) =>
             LET backup == normalizeTree(undo[1].res, nextId).list
             IN /\ currentTree' = backup
                /\ savedTreeSnapshot' = backup
                /\ unsaved'
                /\ storage' = storage]_vars

\* C7, its case: the backup tree has just replaced a different draft and snapshot
C7_Witness ==
    /\ dialog = "restoreYes"
    /\ unsaved
    /\ currentTree # <<>>
    /\ currentTree = savedTreeSnapshot
    /\ TreeToRaw(currentTree) = storage.linkTree_backup
    /\ storage.linkTree # storage.linkTree_backup

\* C8: a restore that finds the backup slot absent or holding an empty tree
\* signals 'no backup' and leaves the draft, the snapshot, the dirty flag and
\* both slots as they were.
C8_NoBackup ==
    [][\A answer \in BOOLEAN :
          (undo # <<>> /\ safeArray(undo[1].res) = <<>> /\ UndoDone(answer)) =>
             /\ dialog' = "noBackup"
             /\ UNCHANGED <<currentTree, savedTreeSnapshot, unsaved, storage>>]_vars

\* C8, its case: 'no backup' has just been signalled over an edited draft, the
\* backup slot holding an empty tree
C8_Witness ==
    /\ dialog = "noBackup"
    /\ storage.linkTree_backup = RArr(<<>>)
    /\ unsaved
    /\ currentTree # savedTreeSnapshot

\* C9: a save one of whose writes failed ends with the failure reported and
\* with the draft, the snapshot and the dirty flag as they were.
C9_FailedWriteReported ==
    [][\A s \in saves :
          (s.failed /\ \A t \in saves' : t.id # s.id) =>
             (dialog' = "saveError" /\ UNCHANGED session)]_vars

\* C10: from a save's read of the primary slot to its completion callback no
\* other save takes a storage step (read primary, write backup, write primary)
\* and the draft is not changed.
C10_SavesDoNotOverlap ==
    [][\A s \in saves :
          s.pc \in {"bkWait", "prWait", "prDone"} =>
             /\ currentTree' = currentTree
             /\ \A t \in saves \ {s} :
                   t.pc \in {"getWait", "bkWait", "prWait"} => t \in saves']_vars

\* C11: a Save that read the source 'file' goes on to the bound file and
\* never to chrome.storage.local: its steps leave the primary and the backup
\* slot alone and its write, when done, leaves the normalized draft in the
\* file; a Save that read another source goes on to the read of the primary
\* slot (the backup rotation) and its steps leave the file alone.
C11_SaveRoute ==
    [][\A s \in saves :
          /\ s.pc = "srcGot" =>
                \A t \in saves' : t.id = s.id =>
                   t.pc \in (IF s.res = SourceFile THEN {"srcGot", "fileWait"}
                                                   ELSE {"srcGot", "getWait"})
          /\ (s.pc \in {"fileWait", "fileDone"} /\ s \notin saves') =>
                /\ storage' = storage
                /\ s.pc = "fileWait" =>
                      \A t \in saves' : t.id = s.id =>
                         fileText' = IF t.failed THEN fileText ELSE TreeToRaw(s.tree)
          /\ (s.pc \in {"getWait", "bkWait", "prWait", "prDone"} /\ s \notin saves') =>
                fileText' = fileText]_vars

\* C11, its case: a Save has just left the draft in the bound file, which held
\* another tree, the primary slot holding what it held
C11_Witness ==
    /\ dialog = "savedFile"
    /\ storage.treeSource = SourceFile
    /\ fileText = TreeToRaw(savedTreeSnapshot)
    /\ fileText \notin BindFiles
    /\ storage \in StoredBefore

RECURSIVE IdSeq(_)
\* the ids of the folders and of the links of a tree, one entry per node
IdSeq(list) ==
    IF list = <<>> THEN <<>>
    ELSE <<Head(list).id>>
         \o [i \in 1..Len(Head(list).links) |-> Head(list).links[i].id]
         \o IdSeq(Head(list).children) \o IdSeq(Tail(list))

\* no two nodes of a tree, folders or links, have the same id
UniqueIds(list) ==
    LET ids == IdSeq(list)
    IN \A i, j \in 1..Len(ids) : ids[i] = ids[j] => i = j

\* C12: in every reachable state of the editing session no two nodes of the
\* working draft, folders or links, have the same id
C12_UniqueIds == UniqueIds(currentTree)


\* the ids of the nodes the page holds: the draft, the cut folder, the cut link
HeldIds ==
    IdSeq(currentTree) \o IdSeq(movingNode)
        \o [i \in 1..Len(movingLink) |-> movingLink[i].id]

\* every node the page holds is held once
HeldOnce ==
    LET ids == HeldIds
    IN \A i, j \in 1..Len(ids) : ids[i] = ids[j] => i = j

\* the ids of the folders the page holds, in the draft or in the move buffer
HeldFolders == FolderIds(currentTree) \cup FolderIds(movingNode)

FolderOf(id) == detachNodeById(currentTree, id).node[1]

\* C14: dragging a folder onto the row or the links area of a folder of its own
\* subtree, or onto a link owned by a folder of its own subtree, leaves the
\* working draft unchanged
C14_DescendantRefused ==
    [][\A id \in FolderIds(currentTree) :
          /\ \A target \in FolderIds(FolderOf(id).children) :
                (\/ DropNodeOnLinks(id, target)
                 \/ \E before \in BOOLEAN : DropNodeOnRow(id, target, before))
                   => currentTree' = currentTree
          /\ \A targetLink \in LinkIds(FolderOf(id).children) :
                DropNodeOnLinkRow(id, targetLink) => currentTree' = currentTree]_vars


\* C15: in every reachable state at most one of the two slots of the move buffer
\* is populated: movingNode and movingLink are never both non-null
C15_OneSlot == ~(movingNode # <<>> /\ movingLink # <<>>)

\* a link is held after a cut of a link that followed the cut of a folder: the
\* second root folder is out of the draft and a link of the first one is held
C15_Witness ==
    /\ movingLink # <<>>
    /\ movingNode = <<>>
    /\ count.edit = 2
    /\ OldTree[2].id \notin FolderIds(currentTree)
    /\ movingLink[1].id \in LinkIds(OldTree)
    /\ movingLink[1].id \notin LinkIds(currentTree)


\* an entry of a file that is folder-shaped
FolderShaped(e) == e.t = "object" /\ Get(e, "type") = RStr(FolderTag)

\* the folder-shaped entries of a value of a file, in their order
FolderEntries(v) == SelectSeq(safeArray(v), FolderShaped)

RECURSIVE IdsKept(_, _)
\* the folders out stand for the folder-shaped entries of v one by one, with as
\* many links as the entry has, and every string id of v is the id in out
IdsKept(v, out) ==
    LET k == FolderEntries(v)
    IN /\ Len(out) = Len(k)
       /\ \A i \in 1..Len(k) :
             LET ls == safeArray(Get(k[i], "links"))
             IN /\ Get(k[i], "id").t = "string" => out[i].id = Get(k[i], "id").v
                /\ IdsKept(Get(k[i], "children"), out[i].children)
                /\ Len(out[i].links) = Len(ls)
                /\ \A j \in 1..Len(ls) :
                      Get(ls[j], "id").t = "string" => out[i].links[j].id = Get(ls[j], "id").v

\* C16: normalizeTree is idempotent and keeps ids: the tree an import makes of a
\* file is what normalizeTree makes of that tree again, with no new id, and
\* every folder or link of the file that is kept and has a string id has that id
C16_Idempotent ==
    [][\A parsed \in reader :
          (Import(parsed) /\ parsed # SyntaxError) =>
             /\ normalizeTree(TreeToRaw(currentTree'), nextId')
                   = [list |-> currentTree', n |-> nextId']
             /\ IdsKept(parsed, currentTree')]_vars

\* an import gave an id to a folder and kept the ids of two folders and a link
C16_Witness ==
    /\ reader = {}
    /\ count.edit = 1
    /\ nextId = 2
    /\ Len(currentTree) = 1
    /\ currentTree[1].id = <<0, 5>>
    /\ Len(currentTree[1].children) = 2
    /\ currentTree[1].children[1].id = uid(1)
    /\ currentTree[1].children[1].links[1].id = <<0, 8>>
    /\ currentTree[1].children[2].id = <<0, 6>>

\* a string of the page
IsString(x) == x \in Seq(Nat)

RECURSIVE WellFormed(_)
\* every folder has a string id, a string title, a list of folders and a list
\* of links with a string id, title and url
WellFormed(list) ==
    \A i \in 1..Len(list) :
       /\ DOMAIN list[i] = {"id", "title", "children", "links"}
       /\ IsString(list[i].id) /\ IsString(list[i].title)
       /\ WellFormed(list[i].children)
       /\ \A j \in 1..Len(list[i].links) :
             /\ DOMAIN list[i].links[j] = {"id", "title", "url"}
             /\ IsString(list[i].links[j].id)
             /\ IsString(list[i].links[j].title)
             /\ IsString(list[i].links[j].url)

RECURSIVE EntriesKept(_, _)
\* the folders out are the folder-shaped entries of v in their order, each with
\* its title, its links in their order and the folder-shaped entries below it
EntriesKept(v, out) ==
    LET k == FolderEntries(v)
    IN /\ Len(out) = Len(k)
       /\ \A i \in 1..Len(k) :
             LET ls == safeArray(Get(k[i], "links"))
             IN /\ out[i].title = StrOrEmpty(Get(k[i], "title"))
                /\ EntriesKept(Get(k[i], "children"), out[i].children)
                /\ Len(out[i].links) = Len(ls)
                /\ \A j \in 1..Len(ls) :
                      /\ out[i].links[j].title = StrOrEmpty(Get(ls[j], "title"))
                      /\ out[i].links[j].url = StrOrEmpty(Get(ls[j], "url"))

\* C17: for a file of any shape normalizeTree returns a well-formed forest: the
\* folder-shaped entries in their order, every field a string or a list, an
\* entry that is not folder-shaped dropped with its subtree
C17_WellFormed ==
    [][\A parsed \in reader :
          (Import(parsed) /\ parsed # SyntaxError) =>
             /\ WellFormed(currentTree')
             /\ EntriesKept(parsed, currentTree')]_vars

\* an import dropped an entry with its subtree and kept the folder after it
C17_Witness ==
    /\ reader = {}
    /\ count.edit = 1
    /\ nextId = 1
    /\ currentTree = <<[id |-> <<0, 7>>, title |-> <<69>>, children |-> <<>>,
                        links |-> <<[id |-> <<0, 8>>, title |-> <<98>>, url |-> <<99>>]>>]>>


\* a list is in non-decreasing order of lower-cased title
SortedByTitle(arr) ==
    \A i \in 1..(Len(arr) - 1) :
       ~StrLess(toLowerCase(arr[i + 1].title), toLowerCase(arr[i].title))

RECURSIVE SortedTree(_)
\* the list, every folder's children and every folder's links are in order
SortedTree(list) ==
    /\ SortedByTitle(list)
    /\ \A i \in 1..Len(list) : SortedByTitle(list[i].links) /\ SortedTree(list[i].children)

\* the one-to-one maps of the positions of a list of length n
Perms(n) == {f \in [1..n -> 1..n] : \A i, j \in 1..n : f[i] = f[j] => i = j}

RECURSIVE SameElements(_, _)
\* the list b holds the folders of the list a, each once, and every folder
\* holds the links and the children it held
SameElements(a, b) ==
    /\ Len(a) = Len(b)
    /\ \E f \in Perms(Len(a)) :
          \A i \in 1..Len(a) :
             /\ b[i].id = a[f[i]].id
             /\ b[i].title = a[f[i]].title
             /\ Len(b[i].links) = Len(a[f[i]].links)
             /\ \E g \in Perms(Len(b[i].links)) :
                   \A j \in 1..Len(b[i].links) : b[i].links[j] = a[f[i]].links[g[j]]
             /\ SameElements(a[f[i]].children, b[i].children)

\* C19: after sortTreeInPlace the root list, every folder's children and every
\* folder's links are in non-decreasing order of lower-cased title, and each of
\* these lists holds the elements it held before the sort
C19_Sorted ==
    [][Sort => (SortedTree(currentTree') /\ SameElements(currentTree, currentTree'))]_vars

\* a sort moved a folder 'a' before a folder 'B' and a link 'A' before a link 'b'
C19_Witness ==
    /\ count.edit = 2
    /\ unsaved
    /\ Len(currentTree) = 2
    /\ currentTree[1].id = <<0, 2>> /\ currentTree[1].title = <<97>>
    /\ currentTree[2].id = <<0, 1>> /\ currentTree[2].title = <<66>>
    /\ Len(currentTree[1].links) = 2
    /\ currentTree[1].links[1].title = <<65>>
    /\ currentTree[1].links[2].title = <<98>>


RECURSIVE NoEmptyFolder(_)
\* no folder of the tree has zero children and zero links
NoEmptyFolder(list) ==
    \A i \in 1..Len(list) :
       /\ Len(list[i].children) + Len(list[i].links) > 0
       /\ NoEmptyFolder(list[i].children)

RECURSIVE LinkSeq(_)
\* the links of a tree in the order of the page
LinkSeq(list) ==
    IF list = <<>> THEN <<>>
    ELSE Head(list).links \o LinkSeq(Head(list).children) \o LinkSeq(Tail(list))

RECURSIVE WithLinks(_)
\* the ids of the folders that have a link somewhere in their subtree
WithLinks(list) ==
    IF list = <<>> THEN {}
    ELSE (IF LinkSeq(<<Head(list)>>) # <<>> THEN {Head(list).id} ELSE {})
            \cup WithLinks(Head(list).children) \cup WithLinks(Tail(list))

RECURSIVE OwnLinks(_)
\* which links each folder holds: the set of pairs <<folder id, links>>
OwnLinks(list) ==
    IF list = <<>> THEN {}
    ELSE {<<Head(list).id, Head(list).links>>}
            \cup OwnLinks(Head(list).children) \cup OwnLinks(Tail(list))

\* C20: removeEmptyFolders leaves no folder with zero children and zero links,
\* keeps every folder that has a link somewhere in its subtree, keeps every link
\* in its folder with its id and order, and gives its own result back unchanged
C20_Pruned ==
    [][Clean =>
          /\ NoEmptyFolder(currentTree')
          /\ WithLinks(currentTree) = FolderIds(currentTree')
          /\ LinkSeq(currentTree') = LinkSeq(currentTree)
          /\ OwnLinks(currentTree') \subseteq OwnLinks(currentTree)
          /\ removeEmptyFolders(currentTree') = currentTree']_vars

\* a prune took out the first of two root folders and kept the folder with two
\* links after it
C20_Witness ==
    /\ count.edit = 2
    /\ unsaved
    /\ Len(currentTree) = 1
    /\ currentTree[1].id = <<0, 2>>
    /\ currentTree[1].title = <<97>>
    /\ Len(currentTree[1].links) = 2
    /\ currentTree[1].children = <<>>


\* C18: for a tree with unique ids, an existing parent or the root, an index and
\* a folder whose ids do not occur in the tree, insertNodeIntoParent and then
\* detachNodeById of the folder's id give the tree back and return the folder
C18_DetachInsert ==
    [][\A parentId \in FolderIds(currentTree) \cup {NullId, RootName},
          index \in Indexes, nodeToInsert \in FreshNodes :
          (InsertFresh(parentId, index, nodeToInsert) /\ UniqueIds(currentTree)) =>
             /\ insertNodeIntoParent(currentTree, parentId, index, nodeToInsert).ok
             /\ detachNodeById(currentTree', nodeToInsert.id)
                   = [node |-> <<nodeToInsert>>, list |-> currentTree]]_vars

\* a folder with a child was inserted between the two children of a folder
C18_Witness ==
    /\ Len(currentTree) = 1
    /\ currentTree[1].id = <<0, 1>>
    /\ Len(currentTree[1].children) = 3
    /\ currentTree[1].children[1].id = <<0, 1, 1>>
    /\ currentTree[1].children[2].id = <<7, 1>>
    /\ Len(currentTree[1].children[2].children) = 1
    /\ currentTree[1].children[3].id = <<0, 1, 2>>


\* q is a case-insensitive substring of the title of a folder or of a link
TitleMatches(x, q) == Includes(toLowerCase(x.title), toLowerCase(q))

\* q is a case-insensitive substring of the title or of the url of the link
LinkMatches(l, q) == TitleMatches(l, q) \/ Includes(toLowerCase(l.url), toLowerCase(q))

RECURSIVE ExpectedView(_, _)
\* the folders whose title matches, or that have a matching link, or that have
\* a child in this list, each with its matching links and these children
ExpectedView(list, q) ==
    IF list = <<>> THEN <<>>
    ELSE LET node == Head(list)
             links == SelectSeq(node.links, LAMBDA l : LinkMatches(l, q))
             children == ExpectedView(node.children, q)
         IN (IF TitleMatches(node, q) \/ links # <<>> \/ children # <<>>
             THEN <<[id |-> node.id, title |-> node.title, children |-> children,
                     links |-> links]>>
             ELSE <<>>) \o ExpectedView(Tail(list), q)

\* C21: for a non-empty query filterTree includes a folder if and only if its
\* title matches, or it has a matching link, or one of its children is
\* included, and an included folder carries its matching links and its included
\* children in their order
C21_Included == currentQuery # <<>> => toRender = ExpectedView(currentTree, currentQuery)

\* C22: in filterTree a link matches the query if and only if the query is a
\* case-insensitive substring of its title or of its url: the links on the page
\* are the links of the draft that match
C22_LinkMatch ==
    currentQuery # <<>> =>
       LinkSeq(toRender)
          = SelectSeq(LinkSeq(currentTree), LAMBDA l : LinkMatches(l, currentQuery))

\* C23 as stated: for a non-empty query every folder of the result has a link
\* or a child folder in the result
C23_NoEmptyIncluded == currentQuery # <<>> => NoEmptyFolder(toRender)

RECURSIVE MatchingOrNonEmpty(_, _)
\* every folder of the list has a matching title, or a link, or a child
MatchingOrNonEmpty(list, q) ==
    \A i \in 1..Len(list) :
       /\ \/ TitleMatches(list[i], q)
          \/ Len(list[i].links) > 0
          \/ Len(list[i].children) > 0
       /\ MatchingOrNonEmpty(list[i].children, q)

\* C23: for a non-empty query every folder of the result has a title that
\* matches, or a link or a child folder in the result
C23_MatchingOrNonEmpty == currentQuery # <<>> => MatchingOrNonEmpty(toRender, currentQuery)

\* a search for 'ca' shows a folder whose title does not match and leaves out
\* another folder of the draft
C23_Witness ==
    /\ currentQuery = <<99, 97>>
    /\ toRender # <<>>
    /\ ~TitleMatches(toRender[1], currentQuery)
    /\ FolderIds(toRender) # FolderIds(currentTree)

\* C24: a search or the clearing of the search changes neither the draft nor the
\* snapshot nor the dirty flag, and filterTree with the empty query returns a
\* tree equal to the draft
C24_Projection ==
    [][((\E value \in SearchValues : Search(value)) \/ ClearSearch) =>
          /\ UNCHANGED <<currentTree, savedTreeSnapshot, unsaved>>
          /\ filterTree(currentTree, <<>>) = currentTree
          /\ filterTree(currentTree', <<>>) = currentTree']_vars

\* a search shows a part of a draft
C24_Witness ==
    /\ currentQuery # <<>>
    /\ toRender # <<>>
    /\ toRender # currentTree
    /\ unsaved

RECURSIVE Flat(_)
\* the entries of a list of lists, in order
Flat(lists) == IF lists = <<>> THEN <<>> ELSE Head(lists) \o Flat(Tail(lists))

RECURSIVE FormatLines(_, _, _)
\* the lines of the folders of a list at depth d, in pre-order: the folder after
\* 2 * d spaces, each of its links after 2 * (d + 1) spaces with its url on the
\* next line after urlIndent[d] spaces, then its child folders, and an empty
\* line after a folder of depth 0
FormatLines(nodes, d, urlIndent) ==
    Flat([i \in 1..Len(nodes) |->
            <<Spaces(2 * d) \o FolderSign \o <<32>> \o nodes[i].title>>
              \o Flat([j \in 1..Len(nodes[i].links) |->
                         <<Spaces(2 * (d + 1)) \o LinkSign \o <<32>> \o nodes[i].links[j].title,
                           Spaces(urlIndent[d]) \o nodes[i].links[j].url>>])
              \o FormatLines(nodes[i].children, d + 1, urlIndent)
              \o (IF d = 0 THEN <<<<>>>> ELSE <<>>)])

\* the depths of the folders of the drafts
Depths == 0..3

\* C25 as stated: the file of the export is the header, then the lines of the
\* walk with the url of a link of a folder at depth d after 2 * (d + 2) spaces
\* (an empty line after the header is let pass)
C25_UrlIndentEven ==
    [][ExportTxt =>
          \E gap \in {<<>>, <<<<>>>>} :
              Split(download') = <<TxtHeader>> \o gap
                                   \o FormatLines(currentTree, 0, [d \in Depths |-> 2 * (d + 2)])]_vars

\* C25: the file of the export is the header line, an empty line, then in
\* pre-order for a folder at depth d a line of 2 * d spaces, the folder sign, a
\* space and the title, for each of its links a line of 2 * (d + 1) spaces, the
\* link sign, a space and the title and a line of 2 * d + 5 spaces and the url,
\* the links before the child folders, and an empty line after each root
C25_Format ==
    [][ExportTxt =>
          Split(download') = <<TxtHeader, <<>>>>
                               \o FormatLines(currentTree, 0, [d \in Depths |-> 2 * d + 5])]_vars

\* the file of a draft of two roots with a link in a folder three deep and a
\* url for it
C25_Witness ==
    /\ Len(currentTree) = 2
    /\ currentTree[2].children # <<>>
    /\ currentTree[2].children[1].children # <<>>
    /\ currentTree[2].children[1].children[1].links # <<>>
    /\ currentTree[2].children[1].children[1].links[1].url # <<>>
    /\ download # <<>>
    /\ Split(download) = <<TxtHeader, <<>>>>
                           \o FormatLines(currentTree, 0, [d \in Depths |-> 2 * d + 5])

RECURSIVE Content(_)
\* a tree without its ids: the nesting, the order, the titles and the urls
Content(list) ==
    [i \in 1..Len(list) |->
        [title |-> list[i].title,
         children |-> Content(list[i].children),
         links |-> [j \in 1..Len(list[i].links) |->
                      [title |-> list[i].links[j].title, url |-> list[i].links[j].url]]]]

\* C26: the import of the text that the export makes of the draft gives a draft
\* with the same nesting of folders, the same order of folders and links, and
\* the same titles and urls
C26_RoundTrip ==
    [][\A file \in reader :
          ImportTxt(file) /\ file.v = exportTreeToTxt(currentTree) =>
              Content(currentTree') = Content(currentTree)]_vars

\* C27: the export of the draft that the import of an exported text gives is
\* that text again, character for character
C27_Stable ==
    [][\A file \in reader :
          ImportTxt(file) /\ file.v = exportTreeToTxt(currentTree) =>
              exportTreeToTxt(currentTree') = file.v]_vars

\* the states of parseTxtToTree before the first line and after each line
ParseTrace(text, n) ==
    LET lines == Split(text)
    IN [k \in 0..Len(lines) |-> ParseLines(ParseStart(n), SubSeq(lines, 1, k))]

\* a line that is no folder line, no link line and no url line
NoPattern(line) ==
    LET content == trim(line)
    IN /\ ~StartsWith(content, FolderSign)
       /\ ~StartsWith(content, LinkSign)
       /\ ~StartsWith(content, TxtHttp)

\* C28: the import of a text never ends with the alert of a wrong format; at
\* every line the stack of parseTxtToTree holds the root entry at its bottom;
\* and a line of no pattern leaves the tree built so far as it is
C28_NeverFails ==
    [][\A file \in reader :
          ImportTxt(file) =>
              LET lines == Split(file.v)
                  trace == ParseTrace(file.v, nextId)
              IN /\ dialog' = "none"
                 /\ currentTree' = trace[Len(lines)].root
                 /\ \A k \in 0..Len(lines) :
                       /\ ~trace[k].threw
                       /\ trace[k].stack # <<>>
                       /\ trace[k].stack[1] = [depth |-> SentinelDepth, path |-> <<>>]
                 /\ \A k \in 1..Len(lines) :
                       NoPattern(lines[k]) => trace[k].root = trace[k - 1].root]_vars

\* the draft of the text with folders at one, five and three spaces: 'a' holds
\* 'b' and 'c', and 'c' the link 'd' with its url
C28_Witness ==
    /\ reader = {}
    /\ dialog = "none"
    /\ unsaved
    /\ Content(currentTree) =
          <<[title |-> <<97>>,
             children |-> <<[title |-> <<98>>, children |-> <<>>, links |-> <<>>],
                            [title |-> <<99>>, children |-> <<>>,
                             links |-> <<[title |-> <<100>>, url |-> TxtHttp]>>]>>,
             links |-> <<>>]>>

RECURSIVE Rows(_)
\* the nodes of a tree in the order of the page, one entry per node: a folder
\* with its id and title, a link with its id, title and url
Rows(list) ==
    IF list = <<>> THEN <<>>
    ELSE <<[id |-> Head(list).id, title |-> Head(list).title]>>
         \o Head(list).links
         \o Rows(Head(list).children) \o Rows(Tail(list))

\* the confirmed deletion of a folder takes the folder and all that it holds
\* out of the draft in one step: the rows of the draft before are those of the
\* draft after with the rows of the folder put back at one place, at a depth
\* that no other row has left; the session is dirty afterwards
DeletedWhole ==
    [][\A id \in FolderIds(currentTree) :
          DeleteFolder(id, TRUE) =>
              LET node == NodeAt(currentTree, findParentAndIndex(currentTree, id))
                  after == Rows(currentTree')
              IN /\ unsaved'
                 /\ \E k \in 0..Len(after) :
                       Rows(currentTree) = SubSeq(after, 1, k) \o Rows(<<node>>)
                                             \o SubSeq(after, k + 1, Len(after))
                 /\ Len(IdSeq(currentTree')) = Len(IdSeq(currentTree)) - Len(IdSeq(<<node>>))
                 /\ \A g \in FolderIds(currentTree') :
                       UniqueIds(currentTree) =>
                           (FolderIds(<<detachNodeById(currentTree', g).node[1]>>)
                              = FolderIds(<<detachNodeById(currentTree, g).node[1]>>)
                                   \ FolderIds(<<node>>))]_vars

\* a node that a deletion took out comes back into the draft only by Cancel or
\* by the restore from the backup (the load of the stored tree and the import
\* of a file, which put outside data in the place of the draft, are let pass)
BackOnlyByCancelOrRestore ==
    [][\A id \in removed :
          id \notin NodeIds(currentTree) /\ id \in NodeIds(currentTree') =>
              \/ Cancel(TRUE)
              \/ UndoDone(TRUE)
              \/ LoadResume
              \/ \E parsed \in reader : Import(parsed)]_vars

\* C29: the confirmed deletion of a folder removes it with all its descendant
\* folders and links in one step, leaves the other nodes and their order as
\* they are and marks the session dirty; what it removed comes back into the
\* draft only through Cancel or the restore from the backup
C29_DeletedForGood == DeletedWhole /\ BackOnlyByCancelOrRestore

\* the primary slot: the bound file when the source is 'file' and the page holds
\* its handle, the key 'linkTree' of chrome.storage.local otherwise
PrimarySlot ==
    IF storage.treeSource = SourceFile /\ boundFileHandle THEN fileText ELSE storage.linkTree

\* nothing is in flight: the page has loaded, and no save, no restore and no
\* bind waits for a callback
Settled == load.pc = "done" /\ saves = {} /\ undo = <<>> /\ bind = <<>>

\* C30: whenever no save is in flight (and the page has loaded), the snapshot
\* equals the normalized content of the primary slot
C30_SnapshotIsPersisted ==
    Settled => savedTreeSnapshot = normalizeTree(RArr(safeArray(PrimarySlot)), nextId).list

RECURSIVE Paths(_)
\* the paths of the folders of a tree
Paths(list) ==
    UNION {{<<i>>} \cup {<<i>> \o q : q \in Paths(list[i].children)} : i \in 1..Len(list)}

RECURSIVE PathBefore(_, _)
\* the folder at path a stands before the one at path b in depth-first pre-order
PathBefore(a, b) ==
    IF a = <<>> THEN b # <<>>
    ELSE IF b = <<>> THEN FALSE
    ELSE IF a[1] # b[1] THEN a[1] < b[1]
    ELSE PathBefore(Tail(a), Tail(b))

\* an id that no node has
AbsentId == <<9, 9>>

\* what findParentAndIndex owes for a folder id of the draft
FindsFolder(id) ==
    LET loc == findParentAndIndex(currentTree, id)
        res == findParentNode(currentTree, id, 1, <<>>)
        matches == {q \in Paths(currentTree) : NodeAt(currentTree, q).id = id}
        detached == detachNodeById(currentTree, id)
    IN IF matches = {}
       THEN /\ loc = <<>> /\ res = <<>>
            /\ detached.node = <<>> /\ detached.list = currentTree
       ELSE /\ loc \in matches
            /\ \A q \in matches \ {loc} : PathBefore(loc, q)
            /\ ParentArrayOf(currentTree, loc)[loc[Len(loc)]].id = id
            /\ res # <<>>
            /\ res[1].parentNode = IF Len(loc) = 1 THEN <<>>
                                   ELSE <<NodeAt(currentTree, SubSeq(loc, 1, Len(loc) - 1))>>

\* what findLinkParent owes for a link id of the draft
FindsLink(linkId) ==
    LET found == findLinkParent(currentTree, linkId)
        owners == {q \in Paths(currentTree) :
                     \E j \in 1..Len(NodeAt(currentTree, q).links) :
                         NodeAt(currentTree, q).links[j].id = linkId}
        detached == detachLinkById(currentTree, linkId)
    IN IF owners = {}
       THEN /\ found.index = 0
            /\ detached.link = <<>> /\ detached.list = currentTree
       ELSE /\ found.path \in owners
            /\ \A q \in owners \ {found.path} : PathBefore(found.path, q)
            /\ found.index \in 1..Len(NodeAt(currentTree, found.path).links)
            /\ NodeAt(currentTree, found.path).links[found.index].id = linkId
            /\ \A j \in 1..(found.index - 1) :
                  NodeAt(currentTree, found.path).links[j].id # linkId

\* C31: findParentAndIndex returns the array and index of the first folder
\* with the id in depth-first pre-order, with parentNode the folder that owns
\* the array, or null for a root; findLinkParent returns the first folder that
\* owns a link with the id and the index of that link; for an id that no node
\* has, both and detachNodeById and detachLinkById return null and the tree
\* stays as it is
C31_Finds ==
    /\ \A id \in FolderIds(currentTree) \cup LinkIds(currentTree) \cup {AbsentId} :
          FindsFolder(id)
    /\ \A linkId \in FolderIds(currentTree) \cup LinkIds(currentTree) \cup {AbsentId} :
          FindsLink(linkId)

\* a draft with a folder below a root and a link in a nested folder or with a
\* folder id that two folders have
C31_Witness ==
    /\ \E id \in FolderIds(currentTree) : Len(findParentAndIndex(currentTree, id)) >= 2
    /\ \E id \in FolderIds(currentTree) :
          Cardinality({q \in Paths(currentTree) : NodeAt(currentTree, q).id = id}) = 2
    /\ LinkIds(currentTree) # {}

RECURSIVE TreeWithout(_, _)
\* the tree without the folders that have the id, all else as it is
TreeWithout(list, id) ==
    LET kept == SelectSeq(list, LAMBDA n : n.id # id)
    IN [i \in 1..Len(kept) |-> [kept[i] EXCEPT !.children = TreeWithout(@, id)]]

RECURSIVE TreeWithoutLink(_, _)
\* the tree without the links that have the id, all else as it is
TreeWithoutLink(list, linkId) ==
    [i \in 1..Len(list) |->
        [list[i] EXCEPT !.links = SelectSeq(@, LAMBDA l : l.id # linkId),
                        !.children = TreeWithoutLink(@, linkId)]]

\* the folder of the draft with the id, and the link with the id
TheFolder(id) == NodeAt(currentTree, CHOOSE q \in Paths(currentTree) : NodeAt(currentTree, q).id = id)
TheLink(linkId) ==
    LET owner == NodeAt(currentTree,
                        CHOOSE q \in Paths(currentTree) :
                            \E j \in 1..Len(NodeAt(currentTree, q).links) :
                                NodeAt(currentTree, q).links[j].id = linkId)
    IN owner.links[CHOOSE j \in 1..Len(owner.links) : owner.links[j].id = linkId]

\* C32: on a draft whose ids are unique detachNodeById returns the folder with
\* the id as it was, children and links included, and leaves the tree without
\* that folder and with nothing else changed; detachLinkById does so for a link
C32_Detaches ==
    UniqueIds(currentTree) =>
        /\ \A id \in FolderIds(currentTree) :
              /\ detachNodeById(currentTree, id).node = <<TheFolder(id)>>
              /\ detachNodeById(currentTree, id).list = TreeWithout(currentTree, id)
        /\ \A linkId \in LinkIds(currentTree) :
              /\ detachLinkById(currentTree, linkId).link = <<TheLink(linkId)>>
              /\ detachLinkById(currentTree, linkId).list = TreeWithoutLink(currentTree, linkId)

\* a dirty draft with unique ids, a folder below a root that holds something,
\* and a folder with two links
C32_Witness ==
    /\ unsaved
    /\ UniqueIds(currentTree)
    /\ \E q \in Paths(currentTree) :
          /\ Len(q) >= 2
          /\ NodeAt(currentTree, q).children # <<>> \/ NodeAt(currentTree, q).links # <<>>
    /\ \E q \in Paths(currentTree) : Len(NodeAt(currentTree, q).links) >= 2

\* arr with the entries at i and j exchanged and the others in place
Exchanged(arr, after, i, j) ==
    /\ Len(after) = Len(arr)
    /\ \A k \in 1..Len(arr) :
          after[k] = IF k = i THEN arr[j] ELSE IF k = j THEN arr[i] ELSE arr[k]

\* swapInArray on the root array and on the links of each root of the draft, for
\* every pair of indices from two below the first to two above the last
SwapsInBounds ==
    \A arr \in {currentTree} \cup {currentTree[k].links : k \in 1..Len(currentTree)} :
        \A i, j \in -1..(Len(arr) + 2) :
            IF i < 1 \/ j < 1 \/ i > Len(arr) \/ j > Len(arr)
            THEN swapInArray(arr, i, j) = arr
            ELSE Exchanged(arr, swapInArray(arr, i, j), i, j)

\* a move of a folder up from the first or down from the last place of its
\* array changes neither draft nor dirty flag; any other move exchanges it
\* with its neighbour, leaves the rest of the draft alone and sets the flag
MovesFolder ==
    [][\A id \in FolderIds(currentTree), direction \in {-1, 1} :
          moveFolder(id, direction) =>
              LET loc == findParentAndIndex(currentTree, id)
                  index == loc[Len(loc)]
                  arr == ParentArrayOf(currentTree, loc)
                  pp == SubSeq(loc, 1, Len(loc) - 1)
              IN IF (index = 1 /\ direction = -1) \/ (index = Len(arr) /\ direction = 1)
                 THEN UNCHANGED <<currentTree, unsaved>>
                 ELSE /\ unsaved'
                      /\ Exchanged(arr, ParentArrayOf(currentTree', loc), index, index + direction)
                      /\ IF pp = <<>> THEN TRUE
                         ELSE currentTree =
                                ReplaceNode(currentTree', pp,
                                    [NodeAt(currentTree', pp) EXCEPT !.children = arr])]_vars

\* the same for a link in the links of its folder
MovesLink ==
    [][\A linkId \in LinkIds(currentTree), direction \in {-1, 1} :
          moveLinkUpDown(linkId, direction) =>
              LET found == findLinkParent(currentTree, linkId)
                  links == NodeAt(currentTree, found.path).links
              IN IF (found.index = 1 /\ direction = -1)
                       \/ (found.index = Len(links) /\ direction = 1)
                 THEN UNCHANGED <<currentTree, unsaved>>
                 ELSE /\ unsaved'
                      /\ Exchanged(links, NodeAt(currentTree', found.path).links,
                                   found.index, found.index + direction)
                      /\ currentTree =
                            ReplaceNode(currentTree', found.path,
                                [NodeAt(currentTree', found.path) EXCEPT !.links = links])]_vars

\* C33: swapInArray leaves the array as it is when an index is out of bounds
\* and exchanges the two entries otherwise; moving a folder or a link up from
\* the first or down from the last place changes neither the draft nor the
\* dirty flag, and every other move exchanges it with its neighbour and marks
\* the session dirty
C33_Swaps == []SwapsInBounds /\ MovesFolder /\ MovesLink

\* the stored tree after one edit that exchanged its two roots: the folder with
\* the two links is the second root now
C33_Witness ==
    /\ Len(currentTree) = 2
    /\ Len(currentTree[2].links) = 2
    /\ currentTree[2].id = OldId
    /\ currentTree[1].title = <<97>>
    /\ currentTree[2].title = <<98>>
    /\ unsaved
    /\ count.edit = 1

\* a line that the folder branch of parseTxtToTree takes
IsFolderLine(line) ==
    /\ trim(line) # <<>>
    /\ ~StartsWith(line, TxtRule)
    /\ StartsWith(trim(line), FolderSign)

\* the folder at a path of the tree built so far, <<>> being the root list
ChildrenAt(root, path) == IF path = <<>> THEN root ELSE NodeAt(root, path).children

\* what a folder line owes, from the state before it to the state after it
FolderLineAttached(before, after, line) ==
    LET d == LeadingSpaces(line)
        open == SelectSeq(before.stack, LAMBDA e : e.depth < d)
        closed == SelectSeq(before.stack, LAMBDA e : e.depth >= d)
        top == open[Len(open)]
        new == after.stack[Len(after.stack)]
        siblings == ChildrenAt(after.root, top.path)
    IN \* the entries of depth >= d are popped, the new folder is pushed
       /\ open # <<>>
       /\ before.stack = open \o closed
       /\ after.stack = Append(open, [depth |-> d, path |-> new.path])
       \* it is the last child of the folder on top, or the last root
       /\ new.path = top.path \o <<Len(siblings)>>
       /\ siblings[Len(siblings)] =
             [id |-> uid(before.n), title |-> trim(Replace(trim(line), FolderSign)),
              children |-> <<>>, links |-> <<>>]
       /\ ChildrenAt(before.root, top.path) = SubSeq(siblings, 1, Len(siblings) - 1)
       /\ IF top.path = <<>> THEN TRUE
          ELSE before.root =
                 ReplaceNode(after.root, top.path,
                     [NodeAt(after.root, top.path) EXCEPT
                         !.children = SubSeq(siblings, 1, Len(siblings) - 1)])
       \* below the innermost open folder when it is deeper than it, else beside
       \* the outermost folder that it closed
       /\ closed # <<>> =>
             SubSeq(closed[1].path, 1, Len(closed[1].path) - 1) = top.path

\* C34: a folder line at depth d pops the open folders of depth >= d, becomes
\* the last child of the folder then on top of the stack, or the last root when
\* only the root entry is left, and is pushed: below the innermost open folder
\* when d is greater than its depth, beside the outermost folder it closed
\* otherwise
C34_FolderLine ==
    [][\A file \in reader :
          ImportTxt(file) =>
              LET lines == Split(file.v)
                  trace == ParseTrace(file.v, nextId)
              IN \A k \in 1..Len(lines) :
                    IsFolderLine(lines[k]) =>
                        FolderLineAttached(trace[k - 1], trace[k], lines[k])]_vars

\* the draft of the text with three folders in steps and a folder at one
\* space that closes two of them: 'a' holds 'b' and 'e', 'b' holds 'c'
C34_Witness ==
    /\ reader = {}
    /\ unsaved
    /\ Len(currentTree) = 2
    /\ currentTree[1].title = <<97>>
    /\ Len(currentTree[1].children) = 2
    /\ currentTree[1].children[1].title = <<98>>
    /\ currentTree[1].children[1].children # <<>>
    /\ currentTree[1].children[1].children[1].title = <<99>>
    /\ currentTree[1].children[2].title = <<101>>
    /\ currentTree[2].title = <<104>>

\* a line that the link branch of parseTxtToTree takes, and one that its url
\* branch takes
IsLinkLine(line) ==
    /\ trim(line) # <<>>
    /\ ~StartsWith(line, TxtRule)
    /\ ~StartsWith(trim(line), FolderSign)
    /\ StartsWith(trim(line), LinkSign)

IsUrlLine(line) ==
    /\ trim(line) # <<>>
    /\ ~StartsWith(line, TxtRule)
    /\ ~StartsWith(trim(line), FolderSign)
    /\ ~StartsWith(trim(line), LinkSign)
    /\ StartsWith(trim(line), TxtHttp)

\* what a link line owes: a new link without url at the end of the links of the
\* innermost open folder, which is the pending link then; nothing when no
\* folder is open
LinkLineAppended(before, after, line) ==
    LET top == before.stack[Len(before.stack)]
        owner == NodeAt(after.root, top.path)
    IN /\ after.stack = before.stack
       /\ IF top.path = <<>>
          THEN after.root = before.root /\ after.lastLink = before.lastLink
          ELSE /\ owner.links # <<>>
               /\ owner.links[Len(owner.links)] =
                     [id |-> uid(before.n), title |-> trim(Replace(trim(line), LinkSign)),
                      url |-> <<>>]
               /\ before.root =
                     ReplaceNode(after.root, top.path,
                         [owner EXCEPT !.links = SubSeq(@, 1, Len(@) - 1)])
               /\ after.lastLink = <<[path |-> top.path, index |-> Len(owner.links)]>>

\* what a url line owes: the url of the pending link is the content of the line
\* and nothing else changes; nothing changes at all when no link is pending
UrlLineSet(before, after, line) ==
    /\ after.stack = before.stack
    /\ after.lastLink = before.lastLink
    /\ IF before.lastLink = <<>> THEN after.root = before.root
       ELSE LET at == before.lastLink[1]
                was == NodeAt(before.root, at.path)
                is == NodeAt(after.root, at.path)
            IN /\ is.links[at.index].url = trim(line)
               /\ before.root =
                     ReplaceNode(after.root, at.path,
                         [is EXCEPT !.links =
                             [j \in 1..Len(is.links) |->
                                 IF j = at.index
                                 THEN [id |-> is.links[j].id, title |-> is.links[j].title,
                                       url |-> was.links[j].url]
                                 ELSE is.links[j]]])

\* C35: a link line appends a link without url to the innermost open folder
\* and makes it the pending link; a line that begins with 'http' sets the url
\* of the pending link and of no other; a folder line clears the pending link;
\* with no link pending (no link line yet, a folder line since, or a link line
\* before the first folder) a line that begins with 'http' changes nothing
C35_LinkLines ==
    [][\A file \in reader :
          ImportTxt(file) =>
              LET lines == Split(file.v)
                  trace == ParseTrace(file.v, nextId)
              IN /\ trace[0].lastLink = <<>>
                 /\ \A k \in 1..Len(lines) :
                       /\ IsLinkLine(lines[k]) =>
                             LinkLineAppended(trace[k - 1], trace[k], lines[k])
                       /\ IsUrlLine(lines[k]) => UrlLineSet(trace[k - 1], trace[k], lines[k])
                       /\ IsFolderLine(lines[k]) => trace[k].lastLink = <<>>
                       /\ NoPattern(lines[k]) => trace[k].lastLink = trace[k - 1].lastLink]_vars

\* the draft of the text with a url after a folder line and two urls after the
\* second of two links: the link 'd' and the link 'f' have no url, the link 'g'
\* has the second of the two
C35_Witness ==
    /\ reader = {}
    /\ unsaved
    /\ Len(currentTree) = 2
    /\ Len(currentTree[1].children) = 2
    /\ currentTree[1].children[1].children # <<>>
    /\ Len(currentTree[1].children[1].children[1].links) = 1
    /\ currentTree[1].children[1].children[1].links[1].url = <<>>
    /\ Len(currentTree[1].children[2].links) = 2
    /\ currentTree[1].children[2].links[1].title = <<102>>
    /\ currentTree[1].children[2].links[1].url = <<>>
    /\ currentTree[1].children[2].links[2].title = <<103>>
    /\ currentTree[1].children[2].links[2].url = TxtHttp \o <<100>>


\* the primary slot and the backup slot of chrome.storage.local
Slots(st) == <<st.linkTree, st.linkTree_backup>>

\* C36: the primary slot and the backup slot are written only as part of a
\* Save: a step that changes either slot is one of the two writes of
\* persistToStorage of a Save in flight; binding a file (also a cancelled or
\* failed attempt), unbinding, boot and every other handler leave both alone
C36_SlotsOnlyBySave ==
    [][Slots(storage') # Slots(storage) =>
          \E s \in saves, ok \in BOOLEAN :
              persistBackup(s, ok) \/ persistPrimary(s, ok)]_vars


\* how many folders and links of a tree have the id x
Occurrences(list, x) ==
    LET ids == IdSeq(list) IN Cardinality({i \in 1..Len(ids) : ids[i] = x})

\* two trees have the same multiset of folder ids and link ids
SameIds(a, b) ==
    \A x \in NodeIds(a) \cup NodeIds(b) : Occurrences(a, x) = Occurrences(b, x)

\* C37: every drag-and-drop move conserves the multiset of the folder ids and
\* link ids of the draft: the dragged item and what it holds are neither lost
\* nor duplicated, also when the drop target is inside the dragged folder
C37_DropConserves == [][NextDrop => SameIds(currentTree, currentTree')]_vars

\* the first root was dragged onto the row of the folder that an earlier drag
\* had put inside it: it is back as a root with that folder and its two links
C37_Witness ==
    /\ count.edit = 2
    /\ unsaved
    /\ Len(currentTree) = 1
    /\ currentTree[1].id = OldTree[1].id
    /\ Len(currentTree[1].links) = 2
    /\ Len(currentTree[1].children) = 1
    /\ currentTree[1].children[1].id = OldTree[2].id


\* a link of the tree has the id and holds value in the field
LinkHolds(list, linkId, field, value) ==
    \E i \in 1..Len(LinkSeq(list)) :
        LinkSeq(list)[i].id = linkId /\ LinkSeq(list)[i][field] = value

\* C38: when the debounce of a title or url input of a link row fires, the
\* link with the same id in the draft holds the typed text, also when the rows
\* were rendered for a search and when the draft was replaced (Cancel, restore,
\* import) since the keystroke; and the dirty flag goes up only if the draft
\* changed
C38_EditReachesDraft ==
    [][\A t \in timers :
          DebounceFire(t) =>
              /\ t.id \in LinkIds(currentTree) =>
                     LinkHolds(currentTree', t.id, t.field, t.value)
              /\ (unsaved' /\ ~unsaved) => currentTree' # currentTree]_vars


\* C39: after the unbind-file action the stored tree source is 'local', so
\* that every later Save takes the chrome.storage.local route with the backup
\* rotation and completes with the dirty flag down, also on a page that a
\* reload left with the stored source 'file' and no file handle
C39_UnbindMakesLocal == [][UnbindClick => storage.treeSource' = SourceLocal]_vars


\* the ids of the folders and links that the move buffer holds
BufferIds == NodeIds(movingNode) \cup {movingLink[i].id : i \in 1..Len(movingLink)}

\* what the move buffer holds is, after the step, still held or in the draft
NotDropped == BufferIds \subseteq (BufferIds' \cup NodeIds(currentTree'))

\* C40: cutting a folder or a link takes it with all it holds out of the draft
\* and puts a copy into the move buffer; Paste on a folder F appends what is
\* held as the last child, or the last link, of F and empties the buffer, so
\* that the draft has it once more than before; Paste with an empty buffer
\* changes neither the draft nor the dirty flag; and a cut does not drop what
\* the buffer holds from an earlier cut
C40_CutPaste ==
    [][/\ \A id \in FolderIds(currentTree) :
             /\ (UniqueIds(currentTree) /\ CutFolder(id)) =>
                    /\ movingNode' = <<TheFolder(id)>>
                    /\ currentTree' = TreeWithout(currentTree, id)
             /\ CutFolder(id) => NotDropped
             /\ Paste(id) =>
                    LET loc == findParentAndIndex(currentTree, id)
                        F == NodeAt(currentTree, loc)
                    IN IF movingNode = <<>> /\ movingLink = <<>>
                       THEN UNCHANGED <<currentTree, unsaved>>
                       ELSE /\ movingNode' = <<>> /\ movingLink' = <<>>
                            /\ currentTree' =
                                   ReplaceNode(currentTree, loc,
                                       [F EXCEPT !.children = @ \o movingNode,
                                                 !.links = @ \o movingLink])
                            /\ \A x \in BufferIds :
                                   Occurrences(currentTree', x) = Occurrences(currentTree, x) + 1
       /\ \A linkId \in LinkIds(currentTree) :
             /\ (UniqueIds(currentTree) /\ CutLink(linkId)) =>
                    /\ movingLink' = <<TheLink(linkId)>>
                    /\ currentTree' = TreeWithoutLink(currentTree, linkId)
             /\ CutLink(linkId) => NotDropped]_vars

=============================================================================
